---- MODULE Spec2Model ----
(***************************************************************************)
(* Verification model of the recurring task scheduler                      *)
(* (src/src/automations/scheduler.py) and of the rate-limited,             *)
(* deduplicating collection loop (src/src/automations/auto_collector.py).  *)
(*                                                                         *)
(* Instants are whole seconds counted from 2024-01-01T00:00:00, a Monday.  *)
(***************************************************************************)
EXTENDS Integers, Sequences, FiniteSets, Bags, TLC

VARIABLES
    now,              \* datetime.now(): the wall clock, in seconds
    trig,             \* one evaluation of the trigger strategy (SpecTrig)
    listing,          \* one call of get_tasks on a registry (SpecList)
    scheduler_running, \* Scheduler.scheduler.running
    scheduled_tasks,  \* Scheduler.scheduled_tasks: task id -> ScheduledTask
    jobs,             \* the AsyncIOScheduler job store: the set of its jobs
    executions,       \* executions of _execute_task / run_task_now in progress
    is_collecting,    \* AutoCollector.is_collecting
    collection_tasks, \* AutoCollector.collection_tasks: list of loop task ids
    loops,            \* the asyncio tasks running _collection_loop
    stop_call,        \* the stop_auto_collection call suspended in "await task"
    collection_stats, \* AutoCollector.collection_stats
    collected_urls,   \* AutoCollector.collected_urls
    last_group_check, \* AutoCollector.last_group_check
    db_links,         \* the links the gateway holds for the session
    ondemand,         \* the calls of collect_from_specific_group
    credited          \* per url, what it added to total_links since the last clear

vars == <<now, trig, listing, scheduler_running, scheduled_tasks, jobs, executions,
          is_collecting, collection_tasks, loops, stop_call, collection_stats,
          collected_urls, last_group_check, db_links, ondemand, credited>>

sched_vars == <<scheduler_running, scheduled_tasks, jobs, executions>>
coll_vars == <<is_collecting, collection_tasks, loops, stop_call,
               collection_stats, collected_urls, last_group_check, db_links,
               ondemand, credited>>

\* Optional[datetime] = None
NoInstant == -1

(***************************************************************************)
(* Calendar arithmetic of datetime / timedelta.                            *)
(***************************************************************************)
MINUTE == 60
HOUR == 3600
DAY == 86400
EpochYear == 2024

IsLeap(y) == (y % 4 = 0 /\ y % 100 # 0) \/ y % 400 = 0

DaysInYear(y) == IF IsLeap(y) THEN 366 ELSE 365

DaysInMonth(y, m) ==
    IF m = 2 THEN (IF IsLeap(y) THEN 29 ELSE 28)
    ELSE IF m \in {4, 6, 9, 11} THEN 30 ELSE 31

\* the day count of an instant (now.date()) and its second within the day
DateOf(t) == t \div DAY
SecondOfDay(t) == t % DAY

\* datetime.weekday(): Monday is 0; day 0 of the model is a Monday
Weekday(t) == DateOf(t) % 7

RECURSIVE YearFrom(_, _)
YearFrom(y, d) ==
    IF d < DaysInYear(y) THEN <<y, d>> ELSE YearFrom(y + 1, d - DaysInYear(y))

RECURSIVE MonthFrom(_, _, _)
MonthFrom(y, m, d) ==
    IF d < DaysInMonth(y, m) THEN <<m, d + 1>>
    ELSE MonthFrom(y, m + 1, d - DaysInMonth(y, m))

\* now.year, now.month, now.day
YearOf(t) == YearFrom(EpochYear, DateOf(t))[1]
MonthOf(t) == MonthFrom(YearOf(t), 1, YearFrom(EpochYear, DateOf(t))[2])[1]
DayOfMonth(t) == MonthFrom(YearOf(t), 1, YearFrom(EpochYear, DateOf(t))[2])[2]

RECURSIVE DaysBeforeYear(_)
DaysBeforeYear(y) ==
    IF y <= EpochYear THEN 0 ELSE DaysBeforeYear(y - 1) + DaysInYear(y - 1)

RECURSIVE DaysBeforeMonth(_, _)
DaysBeforeMonth(y, m) ==
    IF m <= 1 THEN 0 ELSE DaysBeforeMonth(y, m - 1) + DaysInMonth(y, m - 1)

\* datetime(year, month, day, hour, minute)
MakeDateTime(y, m, d, hh, mm) ==
    (DaysBeforeYear(y) + DaysBeforeMonth(y, m) + (d - 1)) * DAY
        + hh * HOUR + mm * MINUTE

\* datetime.combine(date, time(hh, mm))
Combine(date, hh, mm) == date * DAY + hh * HOUR + mm * MINUTE

(***************************************************************************)
(* Schedule-spec strings.  A string is modelled by what the two parsers of *)
(* the scheduler make of it:                                               *)
(*   colon  ':' in schedule_time                                           *)
(*   ints   map(int, schedule_time.split(':')), <<>> when int() raises     *)
(*   strp   datetime.strptime(schedule_time, "%H:%M") as <<hour, minute>>, *)
(*          <<>> when it raises ValueError                                 *)
(*   cron   CronTrigger.from_crontab(schedule_time): the period in seconds *)
(*          of the expression, 0 when it raises ValueError                 *)
(* int() tolerates surrounding blanks and any number of leading zeros,     *)
(* strptime does not, so the two parsers disagree on " 2:00".              *)
(***************************************************************************)
ParseTable ==
    [s \in {"02:00", "04:00", "00:00", "23:59", " 2:00", "25:00", "12:60",
            "1:2:3", "ab:cd", "*/60", "*/5 * * * *", "0 * * * *", "* * *"} |->
       CASE s = "02:00" -> [colon |-> TRUE, ints |-> <<2, 0>>, strp |-> <<2, 0>>, cron |-> 0]
         [] s = "04:00" -> [colon |-> TRUE, ints |-> <<4, 0>>, strp |-> <<4, 0>>, cron |-> 0]
         [] s = "00:00" -> [colon |-> TRUE, ints |-> <<0, 0>>, strp |-> <<0, 0>>, cron |-> 0]
         [] s = "23:59" -> [colon |-> TRUE, ints |-> <<23, 59>>, strp |-> <<23, 59>>, cron |-> 0]
         [] s = " 2:00" -> [colon |-> TRUE, ints |-> <<2, 0>>, strp |-> <<>>, cron |-> 0]
         [] s = "25:00" -> [colon |-> TRUE, ints |-> <<25, 0>>, strp |-> <<>>, cron |-> 0]
         [] s = "12:60" -> [colon |-> TRUE, ints |-> <<12, 60>>, strp |-> <<>>, cron |-> 0]
         [] s = "1:2:3" -> [colon |-> TRUE, ints |-> <<1, 2, 3>>, strp |-> <<>>, cron |-> 0]
         [] s = "ab:cd" -> [colon |-> TRUE, ints |-> <<>>, strp |-> <<>>, cron |-> 0]
         [] s = "*/60" -> [colon |-> FALSE, ints |-> <<>>, strp |-> <<>>, cron |-> 0]
         [] s = "*/5 * * * *" -> [colon |-> FALSE, ints |-> <<>>, strp |-> <<>>, cron |-> 300]
         [] s = "0 * * * *" -> [colon |-> FALSE, ints |-> <<>>, strp |-> <<>>, cron |-> 3600]
         [] s = "* * *" -> [colon |-> FALSE, ints |-> <<>>, strp |-> <<>>, cron |-> 0]]

ScheduleTexts == DOMAIN ParseTable

\* ScheduleFrequency
ScheduleFrequency == {"hourly", "daily", "weekly", "monthly", "custom"}

\* TaskType
TaskType == {"collect_links", "auto_post", "auto_join", "backup", "cleanup", "custom"}

(***************************************************************************)
(* Scheduler._validate_schedule_time                                       *)
(***************************************************************************)
_validate_schedule_time(schedule_time, frequency) ==
    IF frequency = "custom" THEN TRUE
    ELSE IF ParseTable[schedule_time].colon
    THEN LET p == ParseTable[schedule_time].ints
         IN  IF Len(p) # 2 THEN FALSE   \* int() or the unpacking raises
             ELSE 0 <= p[1] /\ p[1] < 24 /\ 0 <= p[2] /\ p[2] < 60
    ELSE FALSE

(***************************************************************************)
(* Scheduler._calculate_next_run, evaluated at the instant t it reads      *)
(* from datetime.now()                                                     *)
(***************************************************************************)
FallbackDelay == 300

\* the comparison of line 196 taken as strict
DailyNextRunStrict(t, hm) ==
    LET next_run == Combine(DateOf(t), hm[1], hm[2])
    IN  IF next_run < t THEN next_run + DAY ELSE next_run

DailyNextRun(t, hm) ==
    LET next_run == Combine(DateOf(t), hm[1], hm[2])
    IN  IF next_run <= t THEN next_run + DAY ELSE next_run

WeeklyNextRun(t, hm) ==
    Combine(DateOf(t), hm[1], hm[2]) + (7 - Weekday(t)) * DAY

MonthlyNextRun(t, hm) ==
    LET next_month == IF MonthOf(t) < 12 THEN MonthOf(t) + 1 ELSE 1
        next_year == IF MonthOf(t) < 12 THEN YearOf(t) ELSE YearOf(t) + 1
    IN  MakeDateTime(next_year, next_month, 1, hm[1], hm[2])

_calculate_next_run(frequency, schedule_time, t) ==
    LET hm == ParseTable[schedule_time].strp
    IN  IF frequency = "hourly" THEN t + HOUR
        ELSE IF frequency \in {"daily", "weekly", "monthly"}
        THEN IF hm = <<>> THEN t + FallbackDelay   \* strptime raised: except branch
             ELSE IF frequency = "daily" THEN DailyNextRun(t, hm)
             ELSE IF frequency = "weekly" THEN WeeklyNextRun(t, hm)
             ELSE MonthlyNextRun(t, hm)
        ELSE t + FallbackDelay

(***************************************************************************)
(* The scheduler: registry, job store, executor.                           *)
(*                                                                         *)
(* A task id is a pair: <<text, 0>> for an id the caller gives, and        *)
(* <<"task_", t>> for the id create_task derives from the clock second t.  *)
(***************************************************************************)
TaskId(text) == <<text, 0>>

\* create_task, line 385: f"task_{datetime.now().strftime('%Y%m%d_%H%M%S')}"
AutoTaskId(t) == <<"task_", t>>

IsAutoId(id) == id[1] = "task_"

\* _register_default_handlers: the task types that have a handler
DefaultHandlerTypes == {"collect_links", "auto_post", "auto_join", "backup", "cleanup"}

\* ScheduledTask(...): a fresh record; next_run_at is history, the instant at
\* which next_run was last computed
NewTask(d) ==
    [name |-> d.name, task_type |-> d.task_type, frequency |-> d.frequency,
     schedule_time |-> d.schedule_time, is_active |-> d.is_active,
     callback |-> d.callback,
     last_run |-> NoInstant, next_run |-> NoInstant, next_run_at |-> NoInstant,
     total_runs |-> 0, success_count |-> 0, fail_count |-> 0]

\* the interval of the IntervalTrigger that _add_to_scheduler picks
IntervalSeconds(frequency) ==
    CASE frequency = "hourly" -> HOUR
      [] frequency = "daily" -> DAY
      [] frequency = "weekly" -> 7 * DAY
      [] frequency = "monthly" -> 30 * DAY
      [] OTHER -> 5 * MINUTE

\* CronTrigger.get_next_fire_time(None, t): the first match at or after t
CronCeil(period, t) == ((t + period - 1) \div period) * period

\* the job _add_to_scheduler builds; the scheduler is running, so the first
\* fire time is computed at once
NewJob(id, task, t) ==
    IF task.frequency = "custom"
    THEN [id |-> id, cron |-> TRUE, period |-> ParseTable[task.schedule_time].cron,
          next_fire |-> CronCeil(ParseTable[task.schedule_time].cron, t)]
    ELSE [id |-> id, cron |-> FALSE, period |-> IntervalSeconds(task.frequency),
          next_fire |-> t + IntervalSeconds(task.frequency)]

\* a job store that keeps the job an id already has
add_job_keeping(jbs, job) == jbs \cup {job}

\* scheduler.add_job(..., id=task.id, replace_existing=True)
add_job(jbs, job) == {j \in jbs : j.id # job.id} \cup {job}

\* Scheduler._add_to_scheduler: a malformed crontab raises inside the try and
\* is only logged, the job store is left as it was
_add_to_scheduler(jbs, id, task, t) ==
    IF task.frequency = "custom" /\ ParseTable[task.schedule_time].cron = 0
    THEN jbs
    ELSE add_job(jbs, NewJob(id, task, t))

\* Scheduler.schedule_task on the task object `task`, registered under id
schedule_task(tasks, jbs, id, task, t) ==
    IF ~_validate_schedule_time(task.schedule_time, task.frequency)
    THEN [ok |-> FALSE, tasks |-> tasks, jobs |-> jbs]
    ELSE LET scheduled == [task EXCEPT
                 !.next_run = _calculate_next_run(task.frequency, task.schedule_time, t),
                 !.next_run_at = t]
         IN  [ok |-> TRUE,
              tasks |-> [i \in DOMAIN tasks \cup {id} |->
                            IF i = id THEN scheduled ELSE tasks[i]],
              jobs |-> _add_to_scheduler(jbs, id, scheduled, t)]

\* a missing handler taken for a handler that did its work
HandlerKindLenient(task) ==
    IF task.callback /\ task.task_type \notin DefaultHandlerTypes THEN "callback"
    ELSE "default"

\* Scheduler._run_task_handler: which branch resolves the handler
HandlerKind(task) ==
    IF task.task_type \in DefaultHandlerTypes THEN "default"
    ELSE IF task.callback THEN "callback"
    ELSE "none"

\* next_run recomputed on the success path alone
AfterHandlerOnSuccess(task, success, t) ==
    IF success
    THEN [task EXCEPT
            !.success_count = @ + 1,
            !.next_run = _calculate_next_run(task.frequency, task.schedule_time, t),
            !.next_run_at = t]
    ELSE [task EXCEPT !.fail_count = @ + 1]

\* _execute_task, lines 278-286: the handler has returned `success`
AfterHandler(task, success, t) ==
    [task EXCEPT
       !.success_count = IF success THEN @ + 1 ELSE @,
       !.fail_count = IF success THEN @ ELSE @ + 1,
       !.next_run = _calculate_next_run(task.frequency, task.schedule_time, t),
       !.next_run_at = t]

\* run-now recomputing next_run as a timer fire does
AfterRunNowRescheduling(task, success) ==
    [task EXCEPT
       !.success_count = IF success THEN @ + 1 ELSE @,
       !.fail_count = IF success THEN @ ELSE @ + 1,
       !.next_run = _calculate_next_run(task.frequency, task.schedule_time, now),
       !.next_run_at = now]

\* run_task_now, lines 484-487
AfterRunNow(task, success) ==
    [task EXCEPT
       !.success_count = IF success THEN @ + 1 ELSE @,
       !.fail_count = IF success THEN @ ELSE @ + 1]

\* a fire that sets last_run and does not count the run
BeginRunUncounted(task, t) == [task EXCEPT !.last_run = t]

\* _execute_task, lines 271-272
BeginRun(task, t) == [task EXCEPT !.last_run = t, !.total_runs = @ + 1]

(***************************************************************************)
(* Executions in progress.  The five default handlers never suspend and    *)
(* return True; only a caller-supplied callback can suspend, so only a     *)
(* callback execution is ever in progress across steps.  `detached` says   *)
(* that the task object the execution holds is no longer the registered    *)
(* one (the id was deleted or re-created meanwhile).                       *)
(***************************************************************************)
MaxExecutions == 2

\* executions is a bag: two run_task_now calls on one task are two executions
Execution(kind, id) == [kind |-> kind, id |-> id, detached |-> FALSE]
InProgress == BagCardinality(executions)
AddExecution(execs, e) == execs (+) SetToBag({e})
RemoveExecution(execs, e) == execs (-) SetToBag({e})

Detach(execs, id) ==
    LET moved(e) == IF e.id = id THEN [e EXCEPT !.detached = TRUE] ELSE e
        attached(t) == [t EXCEPT !.detached = FALSE]
    IN  [t \in {moved(e) : e \in DOMAIN execs} |->
            (IF t \in DOMAIN execs THEN execs[t] ELSE 0)
          + (IF t.id = id /\ t.detached /\ attached(t) \in DOMAIN execs
             THEN execs[attached(t)] ELSE 0)]

\* APScheduler runs a job with max_instances=1 (add_job's default): a fire
\* is skipped while an instance of the same job id is still running
InstanceRunning(id) ==
    \E e \in DOMAIN executions : e.kind = "timer" /\ e.id = id

\* counters are capped so that the state space is finite
MaxRuns == 2

(***************************************************************************)
(* Scheduler.start: starts the AsyncIOScheduler and schedules the three    *)
(* default tasks.  A second start raises inside the try and returns False. *)
(***************************************************************************)
DefaultTasks ==
    << [id |-> TaskId("daily_backup"),
        data |-> [name |-> "n1", task_type |-> "backup", frequency |-> "daily",
                  schedule_time |-> "02:00", is_active |-> TRUE, callback |-> FALSE]],
       [id |-> TaskId("hourly_collection"),
        data |-> [name |-> "n1", task_type |-> "collect_links", frequency |-> "hourly",
                  schedule_time |-> "*/60", is_active |-> TRUE, callback |-> FALSE]],
       [id |-> TaskId("weekly_cleanup"),
        data |-> [name |-> "n1", task_type |-> "cleanup", frequency |-> "weekly",
                  schedule_time |-> "04:00", is_active |-> TRUE, callback |-> FALSE]] >>

RECURSIVE _add_default_tasks(_, _, _, _)
_add_default_tasks(i, tasks, jbs, t) ==
    IF i > Len(DefaultTasks) THEN [tasks |-> tasks, jobs |-> jbs]
    ELSE LET r == schedule_task(tasks, jbs, DefaultTasks[i].id,
                                NewTask(DefaultTasks[i].data), t)
         IN  _add_default_tasks(i + 1, r.tasks, r.jobs, t)

start_returns == ~scheduler_running

start ==
    /\ IF scheduler_running
       THEN UNCHANGED sched_vars
       ELSE LET r == _add_default_tasks(1, scheduled_tasks, jobs, now)
            IN  /\ scheduler_running' = TRUE
                /\ scheduled_tasks' = r.tasks
                /\ jobs' = r.jobs
                /\ UNCHANGED executions
    /\ UNCHANGED <<now, trig, listing, coll_vars>>

(***************************************************************************)
(* Scheduler.create_task(task_data), with the id the caller gives or, when *)
(* task_data has no 'id', the id derived from the clock.  It returns the   *)
(* task id, or "" for a failure.                                           *)
(***************************************************************************)
\* TaskType(...) or ScheduleFrequency(...) raises ValueError
BadEnum(d) == d.task_type \notin TaskType \/ d.frequency \notin ScheduleFrequency

create_task_returns(id, d) ==
    IF BadEnum(d) THEN FALSE
    ELSE schedule_task(scheduled_tasks, jobs, id, NewTask(d), now).ok

create_task(id, d) ==
    /\ scheduler_running
    /\ IF BadEnum(d)
       THEN UNCHANGED sched_vars
       ELSE LET r == schedule_task(scheduled_tasks, jobs, id, NewTask(d), now)
            IN  /\ scheduled_tasks' = r.tasks
                /\ jobs' = r.jobs
                /\ executions' = IF r.ok THEN Detach(executions, id) ELSE executions
                /\ UNCHANGED scheduler_running
    /\ UNCHANGED <<now, trig, listing, coll_vars>>

(***************************************************************************)
(* Scheduler.update_task(task_id, updates).  An absent key of `updates` is *)
(* the text "-".  The fields are assigned in the order of the code; a bad  *)
(* task_type or frequency raises after the earlier ones were assigned.     *)
(***************************************************************************)
Absent == "-"

UpdateFields(task, u) ==
    LET t1 == IF u.name # Absent THEN [task EXCEPT !.name = u.name] ELSE task
        bad_type == u.task_type # Absent /\ u.task_type \notin TaskType
        t2 == IF u.task_type # Absent /\ ~bad_type
              THEN [t1 EXCEPT !.task_type = u.task_type] ELSE t1
        bad_freq == ~bad_type /\ u.frequency # Absent /\ u.frequency \notin ScheduleFrequency
        t3 == IF u.frequency # Absent /\ ~bad_type /\ ~bad_freq
              THEN [t2 EXCEPT !.frequency = u.frequency] ELSE t2
        raised == bad_type \/ bad_freq
        t4 == IF u.schedule_time # Absent /\ ~raised
              THEN [t3 EXCEPT !.schedule_time = u.schedule_time] ELSE t3
        t5 == IF u.is_active # Absent /\ ~raised
              THEN [t4 EXCEPT !.is_active = (u.is_active = "true")] ELSE t4
    IN  [raised |-> raised, task |-> t5]

\* the result of schedule_task (line 442) is not looked at
update_task_returns(id, u) ==
    /\ id \in DOMAIN scheduled_tasks
    /\ ~UpdateFields(scheduled_tasks[id], u).raised

update_task(id, u) ==
    /\ scheduler_running
    /\ IF id \notin DOMAIN scheduled_tasks
       THEN UNCHANGED sched_vars
       ELSE LET f == UpdateFields(scheduled_tasks[id], u)
                edited == [scheduled_tasks EXCEPT ![id] = f.task]
                r == schedule_task(edited, jobs, id, f.task, now)
            IN  IF f.raised
                THEN /\ scheduled_tasks' = edited
                     /\ UNCHANGED <<scheduler_running, jobs, executions>>
                ELSE /\ scheduled_tasks' = r.tasks
                     /\ jobs' = r.jobs
                     /\ UNCHANGED <<scheduler_running, executions>>
    /\ UNCHANGED <<now, trig, listing, coll_vars>>

(***************************************************************************)
(* Scheduler.delete_task(task_id).  scheduler.remove_job raises            *)
(* JobLookupError when the id has no job, before the registry entry is     *)
(* deleted; the except branch returns False.                               *)
(***************************************************************************)
delete_task_returns(id) ==
    id \in DOMAIN scheduled_tasks /\ \E j \in jobs : j.id = id

\* the registry and the job store after the call
DeleteOutcome(id) ==
    IF delete_task_returns(id)
    THEN [tasks |-> [i \in DOMAIN scheduled_tasks \ {id} |-> scheduled_tasks[i]],
          jobs |-> {j \in jobs : j.id # id}]
    ELSE [tasks |-> scheduled_tasks, jobs |-> jobs]

delete_task(id) ==
    /\ scheduler_running
    /\ scheduled_tasks' = DeleteOutcome(id).tasks
    /\ jobs' = DeleteOutcome(id).jobs
    /\ executions' = IF delete_task_returns(id) THEN Detach(executions, id)
                     ELSE executions
    /\ UNCHANGED scheduler_running
    /\ UNCHANGED <<now, trig, listing, coll_vars>>

(***************************************************************************)
(* A timer fires: the job's next fire time moves on, and unless an         *)
(* instance of the job is still running, Scheduler._execute_task(id) runs  *)
(* up to the point where the handler returns or suspends.                  *)
(***************************************************************************)
\* a trigger that fires once: no later fire time within the clock's range
NextFireOnce(j, t) == j.next_fire + 1000 * DAY

NextFire(j, t) == j.next_fire + j.period * (((t - j.next_fire) \div j.period) + 1)

\* an executor that runs one job at a time
MaySubmitWhenIdle(id) == \A e \in DOMAIN executions : e.kind # "timer"

\* the executor's max_instances check on a due job
MaySubmit(id) == ~InstanceRunning(id)

\* an executor that runs the tasks whatever their active flag
SkippedNever(task) == FALSE

\* the test of line 264
Skipped(task) == ~task.is_active

_execute_task(id) ==
    IF id \notin DOMAIN scheduled_tasks
    THEN UNCHANGED <<scheduled_tasks, executions>>
    ELSE IF Skipped(scheduled_tasks[id])
    THEN UNCHANGED <<scheduled_tasks, executions>>
    ELSE LET begun == BeginRun(scheduled_tasks[id], now)
             kind == HandlerKind(begun)
         IN  IF kind = "callback"
             THEN /\ InProgress < MaxExecutions
                  /\ scheduled_tasks' = [scheduled_tasks EXCEPT ![id] = begun]
                  /\ executions' = AddExecution(executions, Execution("timer", id))
             ELSE /\ scheduled_tasks' = [scheduled_tasks EXCEPT ![id] =
                        AfterHandler(begun, kind = "default", now)]
                  /\ UNCHANGED executions

TimerFire(j) ==
    /\ scheduler_running
    /\ j \in jobs
    /\ j.next_fire <= now
    /\ \/ j.id \notin DOMAIN scheduled_tasks
       \/ InstanceRunning(j.id)
       \/ scheduled_tasks[j.id].total_runs < MaxRuns
    /\ jobs' = (jobs \ {j}) \cup {[j EXCEPT !.next_fire = NextFire(j, now)]}
    /\ IF MaySubmit(j.id)
       THEN _execute_task(j.id)
       ELSE UNCHANGED <<scheduled_tasks, executions>>
    /\ UNCHANGED <<scheduler_running, now, trig, listing, coll_vars>>

(***************************************************************************)
(* Scheduler.run_task_now(task_id), up to the point where the handler      *)
(* returns or suspends.  It returns what the handler returned, and False   *)
(* for an unknown id.                                                      *)
(***************************************************************************)
run_task_now(id) ==
    /\ scheduler_running
    /\ IF id \notin DOMAIN scheduled_tasks
       THEN UNCHANGED sched_vars
       ELSE LET task == scheduled_tasks[id]
                kind == HandlerKind(task)
            IN  /\ task.success_count + task.fail_count < MaxRuns
                /\ IF kind = "callback"
                   THEN /\ InProgress < MaxExecutions
                        /\ executions' = AddExecution(executions, Execution("now", id))
                        /\ UNCHANGED <<scheduler_running, scheduled_tasks, jobs>>
                   ELSE /\ scheduled_tasks' = [scheduled_tasks EXCEPT ![id] =
                              AfterRunNow(task, kind = "default")]
                        /\ UNCHANGED <<scheduler_running, jobs, executions>>
    /\ UNCHANGED <<now, trig, listing, coll_vars>>

(***************************************************************************)
(* The callback of a suspended execution finishes: it returns a true or a  *)
(* false value, or raises (caught in _run_task_handler, which then returns *)
(* False).  The counters and next_run are written to the task object the   *)
(* execution holds.                                                        *)
(***************************************************************************)
HandlerOutcomes == {"true", "false", "raise"}

\* _run_task_handler, lines 306 and 314-316: what it returns to its caller
HandlerResult(outcome) == outcome = "true"

\* an exception of the callback leaves the executor before anything is counted
RecordedUnlessRaised(task, kind, outcome, t) ==
    IF outcome = "raise" THEN task
    ELSE IF kind = "timer" THEN AfterHandler(task, HandlerResult(outcome), t)
    ELSE AfterRunNow(task, HandlerResult(outcome))

\* what _execute_task or run_task_now writes to the task after the handler
Recorded(task, kind, outcome, t) ==
    IF kind = "timer" THEN AfterHandler(task, HandlerResult(outcome), t)
    ELSE AfterRunNow(task, HandlerResult(outcome))

HandlerReturns(e, outcome) ==
    /\ BagIn(e, executions)
    /\ executions' = RemoveExecution(executions, e)
    /\ scheduled_tasks' =
          IF e.detached THEN scheduled_tasks
          ELSE [scheduled_tasks EXCEPT ![e.id] = Recorded(@, e.kind, outcome, now)]
    /\ UNCHANGED <<scheduler_running, jobs, now, trig, listing, coll_vars>>

(***************************************************************************)
(* The collection engine (AutoCollector).                                  *)
(*                                                                         *)
(* A loop task is a record: pc is the await it is suspended in,            *)
(*   "created"         the task exists and has not run yet                 *)
(*   "enum"            await group_manager.get_all_groups()      line 128  *)
(*   "fetch"           await message_handler.get_group_messages  line 158  *)
(*   "sleep_group"     await asyncio.sleep(2)                    line 177  *)
(*   "sleep_interval"  await asyncio.sleep(interval)             line 96   *)
(*   "cooldown"        await asyncio.sleep(3600)                 line 85   *)
(*   "finished"        the while loop ended                                *)
(*   "cancelled"       CancelledError ended the task                       *)
(* groups, idx and total are the locals groups, the position of the for    *)
(* loop and total_links_collected; wake is when its sleep ends.  counted   *)
(* and stopped are history: how often the pass in progress counted each    *)
(* URL as new, and whether stop_auto_collection reached the task.  The     *)
(* locals of a task that ended are forgotten.                              *)
(* CancelledError is not an Exception, so no handler of the loop catches   *)
(* it: a task whose cancellation was requested ends at the await it is in. *)
(* Calls of stop_auto_collection do not overlap one another.               *)
(***************************************************************************)
DailyCap == 50
GroupCooldown == 3600
CapCooldown == 3600
CollectionInterval == 300

GroupIds == {"g1", "g2"}
Urls == {"u1"}

\* what get_all_groups can return
GroupLists == {<<>>, <<"g1">>, <<"g1", "g2">>}

\* what get_group_messages can return: per message, the links that
\* link_scraper.extract_links finds in its body
MessageBatches ==
    { <<>>, << <<"u1">> >>, << <<"u1">>, <<"u1">> >> }

RECURSIVE Flatten(_)
Flatten(messages) ==
    IF messages = <<>> THEN <<>> ELSE Head(messages) \o Flatten(Tail(messages))

Done == {"finished", "cancelled"}
NoCount == [u \in Urls |-> 0]

NewLoop ==
    [pc |-> "created", cancel_requested |-> FALSE, stopped |-> FALSE,
     groups |-> <<>>, idx |-> 0, total |-> 0, wake |-> NoInstant,
     counted |-> NoCount]

\* the clock is observed every ClockGrain seconds: a sleep shorter than
\* that is over at the instant it began
ClockGrain == 5 * MINUTE
SleepUntil(t, d) == t + (d \div ClockGrain) * ClockGrain

\* Database.save_link, lines 564-597: an existing row is updated, a missing
\* one is inserted, and True is returned in both cases; `ok` is FALSE when
\* the session is unknown or an exception is caught (line 599)
save_link(db, url, ok) ==
    [success |-> ok, db |-> IF ok THEN db \cup {url} ELSE db]

\* the `if success:` of line 234
CountsAsNew(saved) == saved.success

\* AutoCollector._process_group_messages over the links of the messages;
\* outcomes[k] is how the k-th call of save_link ends
RECURSIVE ProcessLinks(_, _, _)
ProcessLinks(links, outcomes, st) ==
    IF links = <<>> THEN st
    ELSE LET link == Head(links)
         IN  IF link \in st.urls
             THEN ProcessLinks(Tail(links), outcomes, st)
             ELSE LET saved == save_link(st.db, link, outcomes[st.calls + 1])
                      new == CountsAsNew(saved)
                  IN  ProcessLinks(Tail(links), outcomes,
                        [links_collected |-> st.links_collected + (IF new THEN 1 ELSE 0),
                         urls |-> IF new THEN st.urls \cup {link} ELSE st.urls,
                         db |-> saved.db,
                         calls |-> st.calls + 1,
                         counted |-> IF new
                                     THEN [st.counted EXCEPT ![link] = @ + 1]
                                     ELSE st.counted])

_process_group_messages(messages, outcomes, counted) ==
    ProcessLinks(Flatten(messages), outcomes,
                 [links_collected |-> 0, urls |-> collected_urls, db |-> db_links,
                  calls |-> 0, counted |-> counted])

SaveOutcomes(messages) == [1..Len(Flatten(messages)) -> BOOLEAN]

CapExceeded(stats) == stats.collections_today > DailyCap

\* the test of line 83
CapReached(stats) == stats.collections_today >= DailyCap

\* a reset that does not store the date
ResetForgettingDate(stats, t) ==
    IF stats.last_collection_date # DateOf(t)
    THEN [stats EXCEPT !.collections_today = 0]
    ELSE stats

\* AutoCollector._reset_daily_counter_if_needed
_reset_daily_counter_if_needed(stats, t) ==
    IF stats.last_collection_date # DateOf(t)
    THEN [stats EXCEPT !.collections_today = 0, !.last_collection_date = DateOf(t)]
    ELSE stats

\* a loop that looks at no cool-down
CooldownIgnored(g, checks, t) == FALSE

\* the test of lines 145-150: the group was checked less than an hour ago
InCooldown(g, checks, t) ==
    checks[g] # NoInstant /\ t - checks[g] < GroupCooldown

\* the for loop of line 136 from position i on: the first group for which
\* a fetch begins, or Len(groups) + 1 when the loop ends first
RECURSIVE NextToFetch(_, _, _, _, _)
NextToFetch(groups, i, collecting, checks, t) ==
    IF i > Len(groups) \/ ~collecting THEN Len(groups) + 1
    ELSE IF InCooldown(groups[i], checks, t)
    THEN NextToFetch(groups, i + 1, collecting, checks, t)
    ELSE i

\* total_links grows by what a pass (line 184) or a call of
\* collect_from_specific_group (line 330) counted: per url, the part of it
\* that the url made up, kept apart for the passes and the calls
MaxCredited == 2
NoCredit == [u \in Urls |-> [pass |-> 0, call |-> 0]]
UpTo(n) == IF n > MaxCredited THEN MaxCredited ELSE n
CreditPass(c, counted) ==
    [u \in Urls |-> [c[u] EXCEPT !.pass = UpTo(@ + counted[u])]]
CreditCall(c, counted) ==
    [u \in Urls |-> [c[u] EXCEPT !.call = UpTo(@ + counted[u])]]

\* line 92, after _collect_from_all_groups has returned
AfterPass(stats) == [stats EXCEPT !.collections_today = @ + 1]

\* _collect_from_all_groups goes on with the for loop at position i: either
\* a fetch begins, or the loop ends, the statistics are updated (line 184)
\* and _collection_loop counts the pass and sleeps
ContinuePass(t, loop, i) ==
    LET k == NextToFetch(loop.groups, i, is_collecting, last_group_check, now)
    IN  IF k <= Len(loop.groups)
        THEN /\ loops' = [loops EXCEPT ![t] = [loop EXCEPT !.pc = "fetch", !.idx = k]]
             /\ UNCHANGED <<collection_stats, credited>>
        ELSE /\ loops' = [loops EXCEPT ![t] =
                    [loop EXCEPT !.pc = "sleep_interval", !.idx = 0, !.total = 0,
                                 !.groups = <<>>, !.counted = NoCount,
                                 !.wake = SleepUntil(now, CollectionInterval)]]
             /\ collection_stats' =
                    AfterPass([collection_stats EXCEPT !.total_links = @ + loop.total])
             /\ credited' = CreditPass(credited, loop.counted)

\* the enumeration of the groups raised or gave no group: lines 130-132 and
\* 189-190 return from the pass, _collection_loop counts it and sleeps
PassWithoutGroups(t, loop) ==
    /\ loops' = [loops EXCEPT ![t] =
            [loop EXCEPT !.pc = "sleep_interval",
                         !.wake = SleepUntil(now, CollectionInterval)]]
    /\ collection_stats' = AfterPass(collection_stats)
    /\ UNCHANGED credited

\* the record of a task that ended
Ended(pc, loop) ==
    [NewLoop EXCEPT !.pc = pc, !.cancel_requested = loop.cancel_requested,
                    !.stopped = loop.stopped]

Runnable(t) ==
    /\ t \in 1..Len(loops)
    /\ loops[t].pc \notin Done
    /\ ~loops[t].cancel_requested

(***************************************************************************)
(* AutoCollector.start_auto_collection                                     *)
(***************************************************************************)
MaxLoops == 2

\* is_connected is what self.client.is_connected reads when the call is made
start_auto_collection_returns(is_connected) == ~is_collecting /\ is_connected

\* the flag, the list of tasks and the tasks after the call
StartAccepted ==
    [is_collecting |-> TRUE,
     collection_tasks |-> Append(collection_tasks, Len(loops) + 1),
     loops |-> Append(loops, NewLoop)]

StartRejected ==
    [is_collecting |-> is_collecting, collection_tasks |-> collection_tasks,
     loops |-> loops]

StartUnguarded(is_connected) == StartAccepted

StartOutcome(is_connected) ==
    IF is_collecting \/ ~is_connected THEN StartRejected ELSE StartAccepted

start_auto_collection(is_connected) ==
    /\ Len(loops) < MaxLoops
    /\ is_collecting' = StartOutcome(is_connected).is_collecting
    /\ collection_tasks' = StartOutcome(is_connected).collection_tasks
    /\ loops' = StartOutcome(is_connected).loops
    /\ UNCHANGED <<now, trig, listing, sched_vars, stop_call, collection_stats,
                   collected_urls, last_group_check, db_links, ondemand, credited>>

(***************************************************************************)
(* AutoCollector._collection_loop: the top of an iteration, reached when   *)
(* the task first runs and when a sleep of the loop ends.                  *)
(***************************************************************************)
LoopIteration(t) ==
    /\ Runnable(t)
    /\ loops[t].pc \in {"created", "sleep_interval", "cooldown"}
    /\ now >= loops[t].wake
    /\ IF ~is_collecting
       THEN /\ loops' = [loops EXCEPT ![t] = Ended("finished", @)]
            /\ UNCHANGED collection_stats
       ELSE LET stats == _reset_daily_counter_if_needed(collection_stats, now)
            IN  /\ collection_stats' = stats
                /\ loops' = [loops EXCEPT ![t] =
                      IF CapReached(stats)
                      THEN [@ EXCEPT !.pc = "cooldown",
                                     !.wake = SleepUntil(now, CapCooldown)]
                      ELSE [@ EXCEPT !.pc = "enum", !.wake = NoInstant]]
    /\ UNCHANGED <<now, trig, listing, sched_vars, is_collecting, collection_tasks,
                   stop_call, collected_urls, last_group_check, db_links, ondemand, credited>>

(***************************************************************************)
(* get_all_groups returns a list of groups or raises.                      *)
(***************************************************************************)
GroupsReturned(t, groups) ==
    /\ Runnable(t)
    /\ loops[t].pc = "enum"
    /\ IF groups = <<>>
       THEN PassWithoutGroups(t, loops[t])
       ELSE ContinuePass(t, [loops[t] EXCEPT !.groups = groups], 1)
    /\ UNCHANGED <<now, trig, listing, sched_vars, is_collecting, collection_tasks,
                   stop_call,
                   collected_urls, last_group_check, db_links, ondemand>>

GroupsRaised(t) ==
    /\ Runnable(t)
    /\ loops[t].pc = "enum"
    /\ PassWithoutGroups(t, loops[t])
    /\ UNCHANGED <<now, trig, listing, sched_vars, is_collecting, collection_tasks,
                   stop_call, collected_urls, last_group_check, db_links, ondemand>>

(***************************************************************************)
(* get_group_messages returns the messages of the group, which are         *)
(* processed at once (save_link does not suspend), or raises, and the      *)
(* except of line 179 goes on with the next group.                         *)
(***************************************************************************)
MessagesReturned(t, messages, outcomes) ==
    /\ Runnable(t)
    /\ loops[t].pc = "fetch"
    /\ LET loop == loops[t]
           r == _process_group_messages(messages, outcomes, loop.counted)
       IN  /\ collected_urls' = r.urls
           /\ db_links' = r.db
           /\ last_group_check' = [last_group_check EXCEPT ![loop.groups[loop.idx]] = now]
           /\ loops' = [loops EXCEPT ![t] =
                 [loop EXCEPT !.pc = "sleep_group",
                              !.total = @ + r.links_collected,
                              !.counted = r.counted]]
    /\ UNCHANGED <<now, trig, listing, sched_vars, is_collecting, collection_tasks,
                   stop_call, collection_stats, ondemand, credited>>

\* the error leaves the loop and reaches the handler of line 102
GroupErrorEscapes(t) ==
    /\ loops' = [loops EXCEPT ![t] = Ended("finished", @)]
    /\ is_collecting' = FALSE
    /\ UNCHANGED <<collection_stats, credited>>

\* the error ends the for loop as a break does
GroupErrorBreaks(t) ==
    /\ ContinuePass(t, loops[t], Len(loops[t].groups) + 1)
    /\ UNCHANGED is_collecting

\* the handler of lines 179-181
GroupErrorHandled(t) ==
    /\ ContinuePass(t, loops[t], loops[t].idx + 1)
    /\ UNCHANGED is_collecting

MessagesRaised(t) ==
    /\ Runnable(t)
    /\ loops[t].pc = "fetch"
    /\ GroupErrorHandled(t)
    /\ UNCHANGED <<now, trig, listing, sched_vars, collection_tasks,
                   stop_call, collected_urls, last_group_check, db_links, ondemand>>

\* asyncio.sleep(2) of line 177 is over
GroupSleepOver(t) ==
    /\ Runnable(t)
    /\ loops[t].pc = "sleep_group"
    /\ ContinuePass(t, loops[t], loops[t].idx + 1)
    /\ UNCHANGED <<now, trig, listing, sched_vars, is_collecting, collection_tasks,
                   stop_call, collected_urls, last_group_check, db_links, ondemand>>

\* the task whose cancellation was requested runs next: CancelledError is
\* raised at its await and ends it
CancelDelivered(t) ==
    /\ t \in 1..Len(loops)
    /\ loops[t].cancel_requested
    /\ loops[t].pc \notin Done
    /\ loops' = [loops EXCEPT ![t] = Ended("cancelled", @)]
    /\ UNCHANGED <<now, trig, listing, sched_vars, is_collecting, collection_tasks,
                   stop_call, collection_stats, collected_urls, last_group_check,
                   db_links, ondemand, credited>>

(***************************************************************************)
(* AutoCollector.stop_auto_collection.  The for loop of line 258 cancels   *)
(* the first task that is not done and awaits it; when the awaited task is *)
(* done the loop goes on from the next position, and after the last one    *)
(* the list is cleared.                                                    *)
(***************************************************************************)
NoStop == [active |-> FALSE, pos |-> 0]

CancelForgotten(loop) == loop

\* task.cancel() of line 260
RequestCancel(loop) == [loop EXCEPT !.cancel_requested = TRUE]

\* the first position from i on whose task is not done, or 0
RECURSIVE NextNotDone(_, _, _)
NextNotDone(tasks, lps, i) ==
    IF i > Len(tasks) THEN 0
    ELSE IF lps[tasks[i]].pc \notin Done THEN i
    ELSE NextNotDone(tasks, lps, i + 1)

StopFrom(i) ==
    LET k == NextNotDone(collection_tasks, loops, i)
    IN  IF k = 0
        THEN /\ collection_tasks' = <<>>
             /\ stop_call' = NoStop
             /\ UNCHANGED loops
        ELSE /\ loops' = [loops EXCEPT ![collection_tasks[k]] =
                              RequestCancel([@ EXCEPT !.stopped = TRUE])]
             /\ stop_call' = [active |-> TRUE, pos |-> k]
             /\ UNCHANGED collection_tasks

stop_auto_collection_returns == TRUE

stop_auto_collection ==
    /\ ~stop_call.active
    /\ IF ~is_collecting
       THEN UNCHANGED <<is_collecting, collection_tasks, loops, stop_call>>
       ELSE /\ is_collecting' = FALSE
            /\ StopFrom(1)
    /\ UNCHANGED <<now, trig, listing, sched_vars, collection_stats,
                   collected_urls, last_group_check, db_links, ondemand, credited>>

StopReady ==
    /\ stop_call.active
    /\ \/ stop_call.pos > Len(collection_tasks)
       \/ loops[collection_tasks[stop_call.pos]].pc \in Done

StopResumes ==
    /\ StopReady
    /\ StopFrom(stop_call.pos + 1)
    /\ UNCHANGED <<now, trig, listing, sched_vars, is_collecting, collection_stats,
                   collected_urls, last_group_check, db_links, ondemand, credited>>

(***************************************************************************)
(* AutoCollector.clear_collected_urls                                      *)
(***************************************************************************)
\* a clear that starts the engine's bookkeeping afresh
ClearedWithStatistics ==
    [collected_urls |-> {},
     collection_stats |-> [collection_stats EXCEPT !.total_links = 0,
                                                   !.collections_today = 0],
     last_group_check |-> [g \in GroupIds |-> NoInstant]]

\* lines 341-342: what the engine holds after the call
Cleared ==
    [collected_urls |-> {},
     collection_stats |-> collection_stats,
     last_group_check |-> last_group_check]

\* line 341, the value returned at line 345
clear_collected_urls_returns == Cardinality(collected_urls)

clear_collected_urls ==
    /\ collected_urls' = Cleared.collected_urls
    /\ collection_stats' = Cleared.collection_stats
    /\ last_group_check' = Cleared.last_group_check
    /\ credited' = NoCredit
    /\ UNCHANGED <<now, trig, listing, sched_vars, is_collecting, collection_tasks,
                   loops, stop_call, db_links, ondemand>>

(***************************************************************************)
(* AutoCollector.collect_from_specific_group.  A call suspends in          *)
(* get_group_info and in get_group_messages; the processing of the         *)
(* messages and line 330 run without suspension after the second.          *)
(***************************************************************************)
\* the calls made, bounded in number; a call that returned stays in the
\* list
MaxCalls == 2

collect_from_specific_group(group_id) ==
    /\ Len(ondemand) < MaxCalls
    /\ ondemand' = Append(ondemand, [group |-> group_id, pc |-> "info"])
    /\ UNCHANGED <<now, trig, listing, sched_vars, is_collecting, collection_tasks,
                   loops, stop_call, collection_stats, collected_urls,
                   last_group_check, db_links, credited>>

Returned(c) == [ondemand EXCEPT ![c].pc = "returned"]

\* get_group_info returns the group, returns nothing (line 307) or raises
\* (line 334)
GroupInfoReturned(c, outcome) ==
    /\ c \in DOMAIN ondemand
    /\ ondemand[c].pc = "info"
    /\ ondemand' = IF outcome = "group"
                   THEN [ondemand EXCEPT ![c].pc = "messages"]
                   ELSE Returned(c)
    /\ UNCHANGED <<now, trig, listing, sched_vars, is_collecting, collection_tasks,
                   loops, stop_call, collection_stats, collected_urls,
                   last_group_check, db_links, credited>>

\* get_group_messages returns: lines 318-330
GroupMessagesReturned(c, messages, outcomes) ==
    /\ c \in DOMAIN ondemand
    /\ ondemand[c].pc = "messages"
    /\ LET r == _process_group_messages(messages, outcomes, NoCount)
       IN  /\ collected_urls' = r.urls
           /\ db_links' = r.db
           /\ collection_stats' =
                 [collection_stats EXCEPT !.total_links = @ + r.links_collected]
           /\ credited' = CreditCall(credited, r.counted)
    /\ ondemand' = Returned(c)
    /\ UNCHANGED <<now, trig, listing, sched_vars, is_collecting, collection_tasks,
                   loops, stop_call, last_group_check>>

\* get_group_messages raises: line 334
GroupMessagesRaised(c) ==
    /\ c \in DOMAIN ondemand
    /\ ondemand[c].pc = "messages"
    /\ ondemand' = Returned(c)
    /\ UNCHANGED <<now, trig, listing, sched_vars, is_collecting, collection_tasks,
                   loops, stop_call, collection_stats, collected_urls,
                   last_group_check, db_links, credited>>

(***************************************************************************)
(* The clock.  It advances in steps of five minutes; the number of steps   *)
(* taken since ClockStart is bounded.                                      *)
(***************************************************************************)
ClockStart == HOUR + 55 * MINUTE   \* 2024-01-01T01:55:00
MaxTicks == 2
TickSteps == {5 * MINUTE}
TickCount(e) == e \div (5 * MINUTE)

Tick ==
    /\ \E d \in TickSteps :
          /\ TickCount(now + d - ClockStart) <= MaxTicks
          /\ now' = now + d
    /\ UNCHANGED <<trig, listing, sched_vars, coll_vars>>

(***************************************************************************)
(* The state after construction.                                           *)
(***************************************************************************)
InitTrigIdle ==
    trig = [frequency |-> "hourly", schedule_time |-> "00:00", next_run |-> NoInstant]

\* no call of get_tasks has been made
InitListIdle ==
    listing = [tasks |-> <<>>, called |-> FALSE, active_only |-> FALSE, result |-> <<>>]

InitScheduler ==
    /\ scheduler_running = FALSE
    /\ scheduled_tasks = [i \in {} |-> 0]
    /\ jobs = {}
    /\ executions = EmptyBag

\* the engine as constructed (n = 0), or stopped again after n passes that
\* found no group on the day the clock starts
InitCollectorAfter(n) ==
    /\ is_collecting = FALSE
    /\ collection_tasks = <<>>
    /\ loops = <<>>
    /\ stop_call = NoStop
    /\ collection_stats =
          [total_links |-> 0, collections_today |-> n,
           last_collection_date |-> IF n = 0 THEN NoInstant ELSE DateOf(ClockStart)]
    /\ collected_urls = {}
    /\ last_group_check = [g \in GroupIds |-> NoInstant]
    /\ db_links = {}
    /\ ondemand = <<>>
    /\ credited = NoCredit

InitCollector == InitCollectorAfter(0)

Init ==
    /\ now = ClockStart
    /\ InitTrigIdle
    /\ InitListIdle
    /\ InitScheduler
    /\ InitCollector

(***************************************************************************)
(* The scheduler under its API: the requests the environment makes.        *)
(***************************************************************************)
ExplicitIds == {TaskId("daily_backup")}
Requested == ExplicitIds \cup {i \in DOMAIN scheduled_tasks : IsAutoId(i)}

TaskData ==
    { [name |-> "n1", task_type |-> "custom", frequency |-> "custom",
       schedule_time |-> "*/5 * * * *", is_active |-> TRUE, callback |-> TRUE],
      [name |-> "n1", task_type |-> "backup", frequency |-> "daily",
       schedule_time |-> "02:00", is_active |-> TRUE, callback |-> FALSE],
      [name |-> "n1", task_type |-> "custom", frequency |-> "custom",
       schedule_time |-> "* * *", is_active |-> TRUE, callback |-> FALSE],
      [name |-> "n1", task_type |-> "backup", frequency |-> "daily",
       schedule_time |-> "25:00", is_active |-> TRUE, callback |-> FALSE] }

Updates ==
    { [name |-> Absent, task_type |-> Absent, frequency |-> Absent,
       schedule_time |-> "25:00", is_active |-> Absent],
      [name |-> Absent, task_type |-> Absent, frequency |-> Absent,
       schedule_time |-> Absent, is_active |-> "false"],
      [name |-> "n9", task_type |-> "bogus", frequency |-> Absent,
       schedule_time |-> Absent, is_active |-> Absent] }

SchedNext ==
    \/ start
    \/ \E id \in ExplicitIds, d \in TaskData : create_task(id, d)
    \/ \E id \in ExplicitIds, u \in Updates : update_task(id, u)
    \/ \E id \in Requested : delete_task(id)
    \/ \E id \in Requested : run_task_now(id)
    \/ \E j \in jobs : TimerFire(j)
    \/ \E e \in DOMAIN executions, o \in HandlerOutcomes : HandlerReturns(e, o)
    \/ Tick

Spec == Init /\ [][SchedNext]_vars

(***************************************************************************)
(* The scheduler with two task ids whose timers fire every five minutes,   *)
(* one with a callback that can suspend and one with a default handler.    *)
(***************************************************************************)
PairIds == {TaskId("daily_backup"), TaskId("weekly_cleanup")}

PairData ==
    { [name |-> "n1", task_type |-> "custom", frequency |-> "custom",
       schedule_time |-> "*/5 * * * *", is_active |-> TRUE, callback |-> TRUE],
      [name |-> "n1", task_type |-> "backup", frequency |-> "custom",
       schedule_time |-> "*/5 * * * *", is_active |-> TRUE, callback |-> FALSE] }

PairNext ==
    \/ start
    \/ \E id \in PairIds, d \in PairData : create_task(id, d)
    \/ \E j \in jobs : TimerFire(j)
    \/ \E e \in DOMAIN executions, o \in HandlerOutcomes : HandlerReturns(e, o)
    \/ Tick

SpecPair == Init /\ [][PairNext]_vars

(***************************************************************************)
(* The trigger strategy on its own: one evaluation per behaviour, as       *)
(* schedule_task makes it (lines 142-147): validation, then next_run.      *)
(***************************************************************************)
MaxTrigDay == 366
TrigSeconds == {0, 2 * HOUR - 1, 2 * HOUR, 2 * HOUR + 1, 4 * HOUR, DAY - 1}
TrigInstants == {d * DAY + s : d \in 0..MaxTrigDay, s \in TrigSeconds}

TrigCalculate ==
    /\ trig.next_run = NoInstant
    /\ _validate_schedule_time(trig.schedule_time, trig.frequency)
    /\ trig' = [trig EXCEPT
                  !.next_run = _calculate_next_run(trig.frequency, trig.schedule_time, now)]
    /\ UNCHANGED <<now, listing, sched_vars, coll_vars>>

(***************************************************************************)
(* Its inputs are drawn in the initial state.                              *)
(***************************************************************************)
TrigInit ==
    /\ now \in TrigInstants
    /\ trig \in [frequency : ScheduleFrequency, schedule_time : ScheduleTexts,
                 next_run : {NoInstant}]
    /\ InitListIdle
    /\ InitScheduler
    /\ InitCollector

TrigNext == TrigCalculate

SpecTrig == TrigInit /\ [][TrigNext]_vars

(***************************************************************************)
(* The specification of the collection engine: start, stop, the steps of   *)
(* the loop tasks, the cache clear, the connection and the clock.          *)
(***************************************************************************)
MaxElapses == 2
ElapseSteps == {ClockGrain, HOUR, DAY}
ElapseCount(e) == e \div DAY + (e % DAY) \div HOUR + (e % HOUR) \div ClockGrain

\* a task of the event loop that can run now: it runs before the clock is
\* seen to advance
Ready(t) ==
    /\ loops[t].pc \notin Done
    /\ \/ loops[t].cancel_requested
       \/ loops[t].pc \in {"created", "sleep_group"}
       \/ loops[t].pc \in {"sleep_interval", "cooldown"} /\ now >= loops[t].wake

Elapse ==
    /\ ~StopReady
    /\ \A t \in 1..Len(loops) : ~Ready(t)
    /\ \E d \in ElapseSteps :
          /\ ElapseCount(now + d - ClockStart) <= MaxElapses
          /\ now' = now + d
    /\ UNCHANGED <<trig, listing, sched_vars, coll_vars>>

EarlierPasses == {0, DailyCap - 1}

CollInit ==
    /\ now = ClockStart
    /\ InitTrigIdle
    /\ InitListIdle
    /\ InitScheduler
    /\ \E n \in EarlierPasses : InitCollectorAfter(n)

CollNext ==
    \/ \E is_connected \in BOOLEAN : start_auto_collection(is_connected)
    \/ stop_auto_collection
    \/ StopResumes
    \/ \E t \in 1..Len(loops) : LoopIteration(t)
    \/ \E t \in 1..Len(loops), groups \in GroupLists : GroupsReturned(t, groups)
    \/ \E t \in 1..Len(loops) : GroupsRaised(t)
    \/ \E t \in 1..Len(loops), messages \in MessageBatches :
          \E outcomes \in SaveOutcomes(messages) : MessagesReturned(t, messages, outcomes)
    \/ \E t \in 1..Len(loops) : MessagesRaised(t)
    \/ \E t \in 1..Len(loops) : GroupSleepOver(t)
    \/ \E t \in 1..Len(loops) : CancelDelivered(t)
    \/ clear_collected_urls
    \/ Elapse

SpecColl == CollInit /\ [][CollNext]_vars

(***************************************************************************)
(* The collection loop together with collect_from_specific_group and the   *)
(* cache clear.                                                            *)
(***************************************************************************)
DemandInit ==
    /\ now = ClockStart
    /\ InitTrigIdle
    /\ InitListIdle
    /\ InitScheduler
    /\ InitCollector

DemandNext ==
    \/ \E is_connected \in BOOLEAN : start_auto_collection(is_connected)
    \/ \E t \in 1..Len(loops) : LoopIteration(t)
    \/ \E t \in 1..Len(loops), groups \in GroupLists : GroupsReturned(t, groups)
    \/ \E t \in 1..Len(loops) : GroupsRaised(t)
    \/ \E t \in 1..Len(loops), messages \in MessageBatches :
          \E outcomes \in SaveOutcomes(messages) : MessagesReturned(t, messages, outcomes)
    \/ \E t \in 1..Len(loops) : MessagesRaised(t)
    \/ \E t \in 1..Len(loops) : GroupSleepOver(t)
    \/ \E g \in GroupIds : collect_from_specific_group(g)
    \/ \E c \in DOMAIN ondemand, outcome \in {"group", "none", "raise"} :
          GroupInfoReturned(c, outcome)
    \/ \E c \in DOMAIN ondemand, messages \in MessageBatches :
          \E outcomes \in SaveOutcomes(messages) :
             GroupMessagesReturned(c, messages, outcomes)
    \/ \E c \in DOMAIN ondemand : GroupMessagesRaised(c)
    \/ clear_collected_urls
    \/ Elapse

SpecDemand == DemandInit /\ [][DemandNext]_vars

(***************************************************************************)
(* Properties of the scheduler.                                            *)
(***************************************************************************)
TimerExecutions(id) ==
    CopiesIn([kind |-> "timer", id |-> id, detached |-> FALSE], executions)
  + CopiesIn([kind |-> "timer", id |-> id, detached |-> TRUE], executions)

\* C1: every registered task has success_count + fail_count <= total_runs
C1_CountersWithinTotalRuns ==
    \A id \in DOMAIN scheduled_tasks :
        scheduled_tasks[id].success_count + scheduled_tasks[id].fail_count
            <= scheduled_tasks[id].total_runs

\* C2: for every frequency kind and every schedule-spec that validation
\* accepts, the next_run computed at the instant now is strictly later than now
C2_NextRunStrictlyLater ==
    trig.next_run # NoInstant => trig.next_run > now

\* a daily task evaluated at exactly its time of day
C2_DailyAtItsTimeOfDay ==
    /\ trig.next_run # NoInstant
    /\ trig.frequency = "daily"
    /\ trig.schedule_time = "02:00"
    /\ SecondOfDay(now) = 2 * HOUR

\* C3: once a timer fire of an active registered task is over, whatever the
\* handler did, the task's next_run was computed at an instant not earlier
\* than the fire, and lies after it
C3_NextRunRecomputedAfterFire ==
    \A id \in DOMAIN scheduled_tasks :
        LET task == scheduled_tasks[id]
        IN  (task.last_run # NoInstant /\ ~BagIn(Execution("timer", id), executions))
            => (task.next_run_at >= task.last_run /\ task.next_run > task.last_run)

\* a single fire whose handler failed, over at a later instant than it began
C3_FailedFireOver ==
    \E id \in DOMAIN scheduled_tasks :
        LET task == scheduled_tasks[id]
        IN  /\ executions = EmptyBag
            /\ task.total_runs = 1 /\ task.fail_count = 1 /\ task.success_count = 0
            /\ task.next_run_at > task.last_run

\* C4: no task id has two jobs in the job store, and no task id has two
\* timer-triggered executions in progress
C4_OneTimerOneFiring ==
    /\ \A j1, j2 \in jobs : j1.id = j2.id => j1 = j2
    /\ \A e \in DOMAIN executions : TimerExecutions(e.id) <= 1

\* the id was re-scheduled while its timer-triggered execution is in
\* progress, and its new timer is due
C4_RescheduledWhileFiring ==
    \E e \in DOMAIN executions :
        /\ e.kind = "timer" /\ e.detached
        /\ \E j \in jobs : j.id = e.id /\ j.next_fire <= now

(***************************************************************************)
(* C5: if the same URL appears in two messages of one collection pass and  *)
(* the gateway saves it, the pass counts exactly one new link for that     *)
(* URL: no pass counts a URL as new more than once.                        *)
(***************************************************************************)
C5_UrlCountedOncePerPass ==
    \A t \in 1..Len(loops) : \A u \in Urls : loops[t].counted[u] <= 1

(***************************************************************************)
(* C6: once collections_today has reached the cap of 50 and the stored     *)
(* date is the current date, no step changes collections_today and no loop *)
(* begins a collection pass: an iteration in that state sleeps instead.    *)
(***************************************************************************)
BeginsPass(t) == loops[t].pc # "enum" /\ loops'[t].pc = "enum"

C6_NoPassAtDailyCap ==
    [][(/\ collection_stats.collections_today >= DailyCap
        /\ collection_stats.last_collection_date = DateOf(now))
       => /\ collection_stats'.collections_today = collection_stats.collections_today
          /\ \A t \in 1..Len(loops) : ~BeginsPass(t)]_vars

\* a loop found the cap reached and sleeps, the counter at the cap
C6_SleepingAtDailyCap ==
    /\ collection_stats.collections_today = DailyCap
    /\ collection_stats.last_collection_date = DateOf(now)
    /\ \E t \in 1..Len(loops) : loops[t].pc = "cooldown"

(***************************************************************************)
(* C7: a loop task that stop() has reached begins no fetch of a further    *)
(* group, whatever happens afterwards, and no loop task begins a fetch     *)
(* while is_collecting is false.                                           *)
(***************************************************************************)
BeginsFetch(t) ==
    /\ loops'[t].pc = "fetch"
    /\ loops[t].pc # "fetch" \/ loops'[t].idx # loops[t].idx

C7_NoFetchAfterStop ==
    [][\A t \in 1..Len(loops) :
          (loops[t].stopped \/ ~is_collecting) => ~BeginsFetch(t)]_vars

\* stop() reached a loop that is between two groups of its pass
C7_StoppedBetweenGroups ==
    \E t \in 1..Len(loops) :
        /\ loops[t].stopped
        /\ loops[t].pc = "sleep_group"
        /\ loops[t].idx < Len(loops[t].groups)
        /\ ~is_collecting

(***************************************************************************)
(* C8: a fetch of one group that is in flight is allowed to complete: a    *)
(* loop task that awaits the messages of a group does not end before the   *)
(* fetch has returned.                                                     *)
(***************************************************************************)
C8_FetchInFlightCompletes ==
    [][\A t \in 1..Len(loops) : loops[t].pc = "fetch" => loops'[t].pc \notin Done]_vars

(***************************************************************************)
(* C9: a start() made while the engine is collecting, or while the client  *)
(* is not connected, returns a failure and leaves the flag, the list of    *)
(* tasks and the tasks as they are.                                        *)
(***************************************************************************)
C9_StartRejectedChangesNothing ==
    \A is_connected \in BOOLEAN :
        (is_collecting \/ ~is_connected)
        => /\ ~start_auto_collection_returns(is_connected)
           /\ StartOutcome(is_connected).is_collecting = is_collecting
           /\ StartOutcome(is_connected).collection_tasks = collection_tasks
           /\ StartOutcome(is_connected).loops = loops

\* the engine collects, a loop task awaits the messages of a group, and a
\* start() can be made
C9_CollectingWhenStartIsMade ==
    /\ is_collecting
    /\ Len(loops) < MaxLoops
    /\ \E t \in 1..Len(loops) : loops[t].pc = "fetch" /\ ~loops[t].cancel_requested

(***************************************************************************)
(* C10: is_collecting becomes false only in a step of stop(), and a loop   *)
(* task ends only when stop() has cancelled it or is_collecting is false:  *)
(* no error inside an iteration ends the loop or stops the engine.         *)
(***************************************************************************)
C10_OnlyStopEndsCollecting ==
    [][/\ (is_collecting /\ ~is_collecting') => stop_auto_collection
       /\ \A t \in 1..Len(loops) :
             (loops[t].pc \notin Done /\ loops'[t].pc \in Done)
             => (loops[t].cancel_requested \/ ~is_collecting)]_vars

\* the fetch of the first group raised, and the loop fetches the second
C10_LoopGoesOnAfterError ==
    \E t \in 1..Len(loops) :
        /\ is_collecting
        /\ ~loops[t].cancel_requested
        /\ loops[t].pc = "fetch"
        /\ loops[t].idx = 2
        /\ last_group_check[loops[t].groups[1]] = NoInstant

(***************************************************************************)
(* C11: while an execution of another task id is suspended in its handler, *)
(* a due timer of a registered active task whose own job is not running    *)
(* executes the task: the fire sets last_run, counts the run, and either   *)
(* the handler is in progress afterwards or a counter and next_run were    *)
(* updated.                                                                *)
(***************************************************************************)
Fires(j) ==
    /\ j \in jobs
    /\ j.next_fire <= now
    /\ j \notin jobs'
    /\ [j EXCEPT !.next_fire = NextFire(j, now)] \in jobs'

OtherSuspended(id) == \E e \in DOMAIN executions : e.id # id /\ ~e.detached

C11_OtherIdsFireWhileOneIsSuspended ==
    [][\A j \in jobs :
          (/\ Fires(j)
           /\ j.id \in DOMAIN scheduled_tasks
           /\ scheduled_tasks[j.id].is_active
           /\ ~InstanceRunning(j.id)
           /\ OtherSuspended(j.id))
          => LET before == scheduled_tasks[j.id]
                 after == scheduled_tasks'[j.id]
             IN  /\ after.total_runs = before.total_runs + 1
                 /\ after.last_run = now
                 /\ \/ BagIn(Execution("timer", j.id), executions')
                    \/ /\ after.success_count + after.fail_count
                            = before.success_count + before.fail_count + 1
                       /\ after.next_run_at = now
                       /\ after.next_run > now]_vars

\* a task with a default handler ran to its end while the timer execution
\* of another id, begun earlier, is still suspended
C11_RanWhileOtherSuspended ==
    \E e \in DOMAIN executions : \E id \in DOMAIN scheduled_tasks :
        /\ e.kind = "timer" /\ ~e.detached /\ e.id # id
        /\ e.id \in DOMAIN scheduled_tasks
        /\ scheduled_tasks[id].total_runs = 1
        /\ scheduled_tasks[id].success_count = 1
        /\ scheduled_tasks[id].last_run > scheduled_tasks[e.id].last_run
        /\ scheduled_tasks[id].next_run_at = scheduled_tasks[id].last_run

(***************************************************************************)
(* C12: delete(id) on a registered id reports success and leaves neither   *)
(* a registry entry nor a timer for the id; delete(id) on an id that is    *)
(* not registered reports failure and changes neither the registry nor     *)
(* the timers.                                                             *)
(***************************************************************************)
C12_DeleteRemovesEntryAndTimer ==
    scheduler_running =>
    \A id \in DOMAIN scheduled_tasks \cup {TaskId("hourly_collection")} :
        IF id \in DOMAIN scheduled_tasks
        THEN /\ delete_task_returns(id)
             /\ id \notin DOMAIN DeleteOutcome(id).tasks
             /\ \A j \in DeleteOutcome(id).jobs : j.id # id
        ELSE /\ ~delete_task_returns(id)
             /\ DeleteOutcome(id).tasks = scheduled_tasks
             /\ DeleteOutcome(id).jobs = jobs

(***************************************************************************)
(* C13: a create or an update whose schedule-spec does not have the shape  *)
(* its frequency requires (HH:MM in range, for the kinds other than        *)
(* custom) reports a failure: create returns no task id, update returns    *)
(* False.                                                                  *)
(***************************************************************************)
BadShape(frequency, schedule_time) ==
    frequency # "custom" /\ ~_validate_schedule_time(schedule_time, frequency)

C13_BadShapeIsReported ==
    scheduler_running =>
    /\ \A id \in ExplicitIds, d \in TaskData :
          (~BadEnum(d) /\ BadShape(d.frequency, d.schedule_time))
          => ~create_task_returns(id, d)
    /\ \A id \in DOMAIN scheduled_tasks, u \in Updates :
          LET f == UpdateFields(scheduled_tasks[id], u)
          IN  (~f.raised /\ BadShape(f.task.frequency, f.task.schedule_time))
              => ~update_task_returns(id, u)

(***************************************************************************)
(* C14: scheduling a task of frequency custom whose schedule-spec is a     *)
(* malformed cron expression reports a failure and leaves the registry as  *)
(* it was.                                                                 *)
(***************************************************************************)
MalformedCron(d) == d.frequency = "custom" /\ ParseTable[d.schedule_time].cron = 0

C14_MalformedCronIsRejected ==
    scheduler_running =>
    \A id \in ExplicitIds, d \in TaskData :
        (~BadEnum(d) /\ MalformedCron(d))
        => LET r == schedule_task(scheduled_tasks, jobs, id, NewTask(d), now)
           IN  ~r.ok /\ r.tasks = scheduled_tasks

(***************************************************************************)
(* C15: when the handler of an execution raises, for a timer fire and for  *)
(* run-now alike, the fail_count of the task grows by exactly one, its     *)
(* success_count stays, and the scheduler, the registry and the timers     *)
(* stay as they are.                                                       *)
(***************************************************************************)
C15_HandlerExceptionIsAFailure ==
    [][\A e \in DOMAIN executions :
          (HandlerReturns(e, "raise") /\ ~e.detached)
          => /\ scheduled_tasks'[e.id].fail_count = scheduled_tasks[e.id].fail_count + 1
             /\ scheduled_tasks'[e.id].success_count = scheduled_tasks[e.id].success_count
             /\ DOMAIN scheduled_tasks' = DOMAIN scheduled_tasks
             /\ scheduler_running' /\ jobs' = jobs]_vars

\* a task with a callback whose timer fire and whose run-now both failed
C15_FireAndRunNowFailed ==
    \E id \in DOMAIN scheduled_tasks :
        /\ HandlerKind(scheduled_tasks[id]) = "callback"
        /\ executions = EmptyBag
        /\ scheduled_tasks[id].total_runs = 1
        /\ scheduled_tasks[id].fail_count = 2
        /\ scheduled_tasks[id].success_count = 0

(***************************************************************************)
(* C16: run-now(id) on a registered task runs the handler at once; the     *)
(* call and the return of its handler leave the task's next_run and the    *)
(* timers as they are, and when the handler has returned, exactly one of   *)
(* success_count and fail_count has grown by one.                          *)
(***************************************************************************)
Outcomes(task) == task.success_count + task.fail_count

C16_RunNowLeavesNextRunAndTimer ==
    [][/\ \A id \in DOMAIN scheduled_tasks :
             run_task_now(id)
             => /\ jobs' = jobs
                /\ scheduled_tasks'[id].next_run = scheduled_tasks[id].next_run
                /\ \/ BagIn(Execution("now", id), executions')
                   \/ Outcomes(scheduled_tasks'[id]) = Outcomes(scheduled_tasks[id]) + 1
       /\ \A e \in DOMAIN executions :
             (e.kind = "now" /\ ~e.detached
                /\ \E o \in HandlerOutcomes : HandlerReturns(e, o))
             => /\ jobs' = jobs
                /\ scheduled_tasks'[e.id].next_run = scheduled_tasks[e.id].next_run
                /\ Outcomes(scheduled_tasks'[e.id]) = Outcomes(scheduled_tasks[e.id]) + 1
                /\ scheduled_tasks'[e.id].success_count >= scheduled_tasks[e.id].success_count
                /\ scheduled_tasks'[e.id].fail_count >= scheduled_tasks[e.id].fail_count]_vars

\* a run-now of a task with a default handler is over at a later instant
\* than the one at which its next_run was computed
C16_RunNowOverLater ==
    \E id \in DOMAIN scheduled_tasks :
        /\ HandlerKind(scheduled_tasks[id]) = "default"
        /\ scheduled_tasks[id].total_runs = 0
        /\ scheduled_tasks[id].success_count = 1
        /\ scheduled_tasks[id].next_run_at < now
        /\ scheduled_tasks[id].next_run <= now

(***************************************************************************)
(* C17: while a task id stays registered, its total_runs, success_count    *)
(* and fail_count never decrease, whatever operation is applied.           *)
(***************************************************************************)
C17_CountersNeverDecrease ==
    [][\A id \in DOMAIN scheduled_tasks \cap DOMAIN scheduled_tasks' :
          /\ scheduled_tasks'[id].total_runs >= scheduled_tasks[id].total_runs
          /\ scheduled_tasks'[id].success_count >= scheduled_tasks[id].success_count
          /\ scheduled_tasks'[id].fail_count >= scheduled_tasks[id].fail_count]_vars

(***************************************************************************)
(* C18: the daily counter is reset only at the top of a loop iteration,    *)
(* never while a collection pass is in progress, and at most once for each *)
(* calendar date: the top of an iteration resets exactly when the stored   *)
(* date differs from the current date, and the reset stores the current    *)
(* date.                                                                   *)
(***************************************************************************)
\* the loop is inside _collect_from_all_groups and goes on with it: a loop
\* that stop() has cancelled takes no further step of its pass
InPass(t) == Runnable(t) /\ loops[t].pc \in {"enum", "fetch", "sleep_group"}

\* the step sets the counter to zero or changes the stored date
DailyReset ==
    \/ collection_stats'.last_collection_date # collection_stats.last_collection_date
    \/ collection_stats'.collections_today < collection_stats.collections_today

TopOfIteration(t) == LoopIteration(t) /\ is_collecting

C18_DailyResetOnlyAtTopOncePerDate ==
    [][/\ DailyReset
          => /\ \E t \in 1..Len(loops) : TopOfIteration(t)
             /\ \A t \in 1..Len(loops) : ~InPass(t)
             /\ collection_stats.last_collection_date < DateOf(now)
             /\ collection_stats'.last_collection_date = DateOf(now)
             /\ collection_stats'.collections_today = 0
       /\ \A t \in 1..Len(loops) :
             TopOfIteration(t)
             => IF collection_stats.last_collection_date # DateOf(now)
                THEN DailyReset
                ELSE collection_stats' = collection_stats]_vars

\* a loop that counted passes on one date is at the top of an iteration on
\* a later date, the counter reset
C18_ResetOnTheNextDate ==
    /\ collection_stats.collections_today = 0
    /\ collection_stats.last_collection_date = DateOf(now)
    /\ DateOf(now) > DateOf(ClockStart)
    /\ collection_stats.total_links > 0
    /\ \E t \in 1..Len(loops) : loops[t].pc = "enum"

(***************************************************************************)
(* C19: clear_collected_urls empties the in-memory set of collected urls   *)
(* and changes nothing else: the persisted links, total_links,             *)
(* collections_today, the last check of each group and the collecting      *)
(* state stay as they are.                                                 *)
(***************************************************************************)
C19_ClearEmptiesOnlyTheUrlSet ==
    [][clear_collected_urls
       => /\ collected_urls' = {}
          /\ db_links' = db_links
          /\ collection_stats' = collection_stats
          /\ last_group_check' = last_group_check
          /\ is_collecting' = is_collecting
          /\ collection_tasks' = collection_tasks
          /\ loops' = loops
          /\ stop_call' = stop_call]_vars

\* the set was cleared while the engine collects: a saved link is no
\* longer in it, a group has been checked, a pass is under way
C19_ClearedWhileCollecting ==
    /\ collected_urls = {}
    /\ db_links # {}
    /\ collection_stats.total_links > 0
    /\ \E g \in GroupIds : last_group_check[g] # NoInstant
    /\ is_collecting
    /\ \E t \in 1..Len(loops) : loops[t].pc = "fetch"

(***************************************************************************)
(* Scheduler.get_tasks(active_only).  A text is the tuple of its           *)
(* fixed-width fields: datetime.isoformat() gives                          *)
(* 'YYYY-MM-DDTHH:MM:SS', zero-padded, and str comparison goes field by    *)
(* field, a proper prefix being smaller.                                   *)
(***************************************************************************)
None == <<>>

isoformat(t) ==
    <<YearOf(t), MonthOf(t), DayOfMonth(t),
      SecondOfDay(t) \div HOUR, (SecondOfDay(t) % HOUR) \div MINUTE, t % MINUTE>>

\* the text '9999-12-31' of line 522
EndOfTime == <<9999, 12, 31>>

\* str.__lt__
RECURSIVE TextLess(_, _)
TextLess(a, b) ==
    IF a = <<>> THEN b # <<>>
    ELSE IF b = <<>> THEN FALSE
    ELSE IF Head(a) # Head(b) THEN Head(a) < Head(b)
    ELSE TextLess(Tail(a), Tail(b))

\* the dict of lines 506-519, with the fields the claims are about
Summary(task) ==
    [id |-> task.id, is_active |-> task.is_active,
     next_run |-> IF task.next_run # NoInstant THEN isoformat(task.next_run) ELSE None]

\* a key that puts the summaries without next_run first
SortKeyEmpty(x) == x.next_run

\* the key of line 522: x['next_run'] or '9999-12-31'
SortKey(x) == IF x.next_run # None THEN x.next_run ELSE EndOfTime

\* list.sort is stable: x goes before the first summary whose key is
\* greater than its own
RECURSIVE InsertByKey(_, _)
InsertByKey(sorted, x) ==
    IF sorted = <<>> THEN <<x>>
    ELSE IF TextLess(SortKey(x), SortKey(Head(sorted))) THEN <<x>> \o sorted
    ELSE <<Head(sorted)>> \o InsertByKey(Tail(sorted), x)

RECURSIVE sort(_)
sort(list) ==
    IF list = <<>> THEN <<>>
    ELSE InsertByKey(sort(SubSeq(list, 1, Len(list) - 1)), list[Len(list)])

\* the for loop of lines 502-519 over self.scheduled_tasks.values()
RECURSIVE Summaries(_, _)
Summaries(tasks, active_only) ==
    IF tasks = <<>> THEN <<>>
    ELSE IF active_only /\ ~Head(tasks).is_active
         THEN Summaries(Tail(tasks), active_only)
         ELSE <<Summary(Head(tasks))>> \o Summaries(Tail(tasks), active_only)

get_tasks_returns(tasks, active_only) == sort(Summaries(tasks, active_only))

get_tasks(active_only) ==
    /\ ~listing.called
    /\ listing' = [listing EXCEPT
                     !.called = TRUE,
                     !.active_only = active_only,
                     !.result = get_tasks_returns(listing.tasks, active_only)]
    /\ UNCHANGED <<now, trig, sched_vars, coll_vars>>

(***************************************************************************)
(* get_tasks on its own: one call per behaviour on a registry drawn in     *)
(* the initial state, its values in the order of the dict.  The next_run   *)
(* of a task is absent or an instant of 2024 or 2025.                      *)
(***************************************************************************)
MaxListed == 3

ListInstants ==
    {NoInstant, 2 * HOUR, 31 * DAY, 274 * DAY + 2 * HOUR, 366 * DAY}

ListedRegistries ==
    UNION { { [k \in 1..n |-> [id |-> AutoTaskId(k), next_run |-> f[k].next_run,
                               is_active |-> f[k].is_active]] :
              f \in [1..n -> [next_run : ListInstants, is_active : BOOLEAN]] } :
            n \in 0..MaxListed }

ListInit ==
    /\ now = ClockStart
    /\ InitTrigIdle
    /\ listing \in [tasks : ListedRegistries, called : {FALSE},
                    active_only : {FALSE}, result : {<<>>}]
    /\ InitScheduler
    /\ InitCollector

ListNext == \E active_only \in BOOLEAN : get_tasks(active_only)

SpecList == ListInit /\ [][ListNext]_vars

(***************************************************************************)
(* C20: get_tasks(active_only) returns the summaries in ascending order of *)
(* next_run, those without next_run last, and with active_only true the    *)
(* result holds exactly the registered tasks whose active flag is set.     *)
(***************************************************************************)
\* the task of the registry that the k-th summary of the result is about
Listed(k) ==
    CHOOSE task \in {listing.tasks[i] : i \in 1..Len(listing.tasks)} :
        task.id = listing.result[k].id

C20_ListSortedByNextRunAndFiltered ==
    listing.called
    => /\ \A i, j \in 1..Len(listing.result) :
             i < j
             => /\ \E a \in 1..Len(listing.tasks) :
                      listing.tasks[a].id = listing.result[i].id
                /\ Listed(i).next_run = NoInstant => Listed(j).next_run = NoInstant
                /\ (Listed(i).next_run # NoInstant /\ Listed(j).next_run # NoInstant)
                   => Listed(i).next_run <= Listed(j).next_run
                /\ listing.result[i].id # listing.result[j].id
       /\ listing.active_only
          => {listing.result[k].id : k \in 1..Len(listing.result)}
             = {listing.tasks[a].id : a \in {b \in 1..Len(listing.tasks) :
                                               listing.tasks[b].is_active}}
       /\ ~listing.active_only
          => {listing.result[k].id : k \in 1..Len(listing.result)}
             = {listing.tasks[a].id : a \in 1..Len(listing.tasks)}

\* an active-only listing of a registry held in descending order of
\* next_run, with a task without next_run first and an inactive task in it
C20_ListedOutOfOrderRegistry ==
    /\ listing.called
    /\ listing.active_only
    /\ Len(listing.tasks) = 3
    /\ listing.tasks[1].next_run = NoInstant /\ listing.tasks[1].is_active
    /\ listing.tasks[2].next_run = 274 * DAY + 2 * HOUR /\ listing.tasks[2].is_active
    /\ listing.tasks[3].next_run = 31 * DAY /\ ~listing.tasks[3].is_active
    /\ Len(listing.result) = 2
    /\ listing.result[2].next_run = None

(***************************************************************************)
(* C21: in a pass, last_group_check of a group is set to the current       *)
(* instant whenever the processing of the group was attempted, whether the *)
(* fetch returned or raised.                                               *)
(***************************************************************************)
C21_LastCheckUpdatedWhateverTheOutcome ==
    [][\A t \in 1..Len(loops) :
          (\/ MessagesRaised(t)
           \/ \E messages \in MessageBatches :
                 \E outcomes \in SaveOutcomes(messages) :
                    MessagesReturned(t, messages, outcomes))
          => last_group_check'[loops[t].groups[loops[t].idx]] = now]_vars

(***************************************************************************)
(* C22: when the fetch or the processing of a group raises in a pass, the  *)
(* pass goes on in the order of the enumeration: the next group that is    *)
(* not in its cool-down is fetched, and the pass ends only when there is   *)
(* no such group.                                                          *)
(***************************************************************************)
LaterToFetch(t) ==
    {k \in (loops[t].idx + 1)..Len(loops[t].groups) :
        ~InCooldown(loops[t].groups[k], last_group_check, now)}

C22_ErrorInOneGroupIsIsolated ==
    [][\A t \in 1..Len(loops) :
          (MessagesRaised(t) /\ is_collecting)
          => /\ is_collecting'
             /\ loops'[t].groups = IF LaterToFetch(t) = {} THEN <<>> ELSE loops[t].groups
             /\ IF LaterToFetch(t) = {}
                THEN loops'[t].pc = "sleep_interval"
                ELSE /\ loops'[t].pc = "fetch"
                     /\ loops'[t].idx \in LaterToFetch(t)
                     /\ \A k \in LaterToFetch(t) : loops'[t].idx <= k]_vars

\* the fetch of g1 raised (g1 was neither checked nor in cool-down) and the
\* loop fetches g2 in the same pass
C22_FetchesNextAfterError ==
    \E t \in 1..Len(loops) :
        /\ Runnable(t)
        /\ loops[t].pc = "fetch"
        /\ loops[t].groups = <<"g1", "g2">>
        /\ loops[t].idx = 2
        /\ last_group_check["g1"] = NoInstant

(***************************************************************************)
(* C23: a link is added to collected_urls and counted as new only if the   *)
(* gateway newly inserted it: a url that the gateway already holds for the *)
(* session is saved without being counted, also after                      *)
(* clear_collected_urls has emptied the set.                               *)
(***************************************************************************)
C23_CountedOnlyWhenNewlyInserted ==
    [][\A t \in 1..Len(loops) :
          (\E messages \in MessageBatches :
              \E outcomes \in SaveOutcomes(messages) :
                 MessagesReturned(t, messages, outcomes))
          => /\ (collected_urls' \ collected_urls) \subseteq (db_links' \ db_links)
             /\ loops'[t].total - loops[t].total
                <= Cardinality(db_links' \ db_links)]_vars

(***************************************************************************)
(* C24: the collection loop never begins a fetch for a group whose         *)
(* last_group_check lies less than 3600 seconds before the current         *)
(* instant: the for loop passes over such a group, and no step changes     *)
(* the timestamp of a group that is in its cool-down.                      *)
(***************************************************************************)
C24_NoFetchWithinCooldown ==
    [][/\ \A t \in 1..Len(loops) :
             BeginsFetch(t)
             => LET g == loops'[t].groups[loops'[t].idx]
                IN  \/ last_group_check[g] = NoInstant
                    \/ now - last_group_check[g] >= GroupCooldown
       /\ \A g \in GroupIds :
             (last_group_check[g] # NoInstant /\ now - last_group_check[g] < GroupCooldown)
             => last_group_check'[g] = last_group_check[g]]_vars

\* the only loop ever started fetched g1 in its first pass, at the start of
\* the clock, and in its second pass, within the hour, it passed over g1
\* and fetches g2
C24_PassedOverGroupInCooldown ==
    /\ Len(loops) = 1
    /\ Runnable(1)
    /\ loops[1].pc = "fetch"
    /\ loops[1].groups = <<"g1", "g2">>
    /\ loops[1].idx = 2
    /\ collection_stats.collections_today = 1
    /\ DateOf(now) = DateOf(ClockStart)
    /\ last_group_check["g1"] = ClockStart
    /\ now - last_group_check["g1"] < GroupCooldown
    /\ last_group_check["g2"] = NoInstant

(***************************************************************************)
(* C25: a timer fire for a registered task whose is_active is false skips  *)
(* the execution: the handler is not invoked and last_run, next_run,       *)
(* total_runs, success_count and fail_count of the task stay as they are.  *)
(***************************************************************************)
C25_InactiveFireChangesNothing ==
    [][\A j \in jobs :
          (/\ TimerFire(j)
           /\ j.id \in DOMAIN scheduled_tasks
           /\ ~scheduled_tasks[j.id].is_active)
          => /\ scheduled_tasks' = scheduled_tasks
             /\ executions' = executions]_vars

\* the cron timer of an inactive task has fired since the task was last
\* scheduled, and the task has never run
C25_InactiveTimerHasFired ==
    \E j \in jobs :
        /\ j.cron
        /\ j.id \in DOMAIN scheduled_tasks
        /\ ~scheduled_tasks[j.id].is_active
        /\ j.next_fire >= scheduled_tasks[j.id].next_run_at + j.period
        /\ scheduled_tasks[j.id].total_runs = 0
        /\ scheduled_tasks[j.id].last_run = NoInstant

(***************************************************************************)
(* C26: each timer fire of an active registered task sets last_run to the  *)
(* current instant and adds exactly one to total_runs, and when its        *)
(* handler has returned, exactly one of success_count and fail_count has   *)
(* grown by exactly one: success_count when the handler returned a true    *)
(* value, fail_count otherwise.                                            *)
(***************************************************************************)
C26_FireCountsOneRunAndOneOutcome ==
    [][/\ \A j \in jobs :
             (/\ TimerFire(j)
              /\ ~InstanceRunning(j.id)
              /\ j.id \in DOMAIN scheduled_tasks
              /\ scheduled_tasks[j.id].is_active)
             => LET old == scheduled_tasks[j.id]
                    new == scheduled_tasks'[j.id]
                    suspended == BagIn(Execution("timer", j.id), executions')
                    succeeded == old.task_type \in DefaultHandlerTypes
                IN  /\ new.last_run = now
                    /\ new.total_runs = old.total_runs + 1
                    /\ new.success_count
                       = old.success_count + (IF ~suspended /\ succeeded THEN 1 ELSE 0)
                    /\ new.fail_count
                       = old.fail_count + (IF ~suspended /\ ~succeeded THEN 1 ELSE 0)
       /\ \A e \in DOMAIN executions, o \in HandlerOutcomes :
             (e.kind = "timer" /\ ~e.detached /\ HandlerReturns(e, o))
             => LET old == scheduled_tasks[e.id]
                    new == scheduled_tasks'[e.id]
                IN  /\ new.last_run = old.last_run
                    /\ new.total_runs = old.total_runs
                    /\ new.success_count = old.success_count + (IF o = "true" THEN 1 ELSE 0)
                    /\ new.fail_count = old.fail_count + (IF o = "true" THEN 0 ELSE 1)]_vars

\* a task fired twice: one handler call succeeded, the other failed
C26_TwoFiresOneOfEach ==
    \E id \in DOMAIN scheduled_tasks :
        /\ scheduled_tasks[id].total_runs = 2
        /\ scheduled_tasks[id].success_count = 1
        /\ scheduled_tasks[id].fail_count = 1
        /\ scheduled_tasks[id].last_run = now
        /\ ~InstanceRunning(id)

(***************************************************************************)
(* The scheduler with tasks whose handler fails on every fire: a callback  *)
(* that returns a false value or raises, and a task type without handler.  *)
(* The id is created once, on a five-minute cron timer, and can be run    *)
(* at once.  The clock                                                     *)
(* advances, a due timer fires and a suspended callback returns: weak      *)
(* fairness on each, as the event loop and APScheduler provide.            *)
(***************************************************************************)
StallIds == {TaskId("t1")}

StallData ==
    { [name |-> "n1", task_type |-> "custom", frequency |-> "custom",
       schedule_time |-> "*/5 * * * *", is_active |-> TRUE, callback |-> c] :
      c \in BOOLEAN }

StallNext ==
    \/ start
    \/ \E id \in StallIds \ DOMAIN scheduled_tasks, d \in StallData : create_task(id, d)
    \/ \E id \in StallIds : run_task_now(id)
    \/ \E j \in jobs : TimerFire(j)
    \/ \E e \in DOMAIN executions, o \in {"false", "raise"} : HandlerReturns(e, o)
    \/ Tick

SpecStall ==
    /\ Init /\ [][StallNext]_vars
    /\ WF_vars(Tick)
    /\ \A id \in StallIds : WF_vars(\E j \in jobs : j.id = id /\ TimerFire(j))
    /\ WF_vars(\E e \in DOMAIN executions, o \in {"false", "raise"} : HandlerReturns(e, o))

(***************************************************************************)
(* C27: a task whose handler fails on every fire does not stall: after     *)
(* each failed fire the task still has its timer, and a task whose n      *)
(* fires are over without a success is fired again, as long as the clock   *)
(* can advance and the run counter is below its cap.                       *)
(***************************************************************************)
C27_FailingTaskIsFiredAgain ==
    /\ [](\A id \in StallIds :
             (id \in DOMAIN scheduled_tasks /\ scheduled_tasks[id].fail_count >= 1)
             => \E j \in jobs : j.id = id)
    /\ \A id \in StallIds, n \in 1..(MaxRuns - 1) :
          (/\ id \in DOMAIN scheduled_tasks
           /\ scheduled_tasks[id].is_active
           /\ scheduled_tasks[id].total_runs = n
           /\ ~InstanceRunning(id)
           /\ scheduled_tasks[id].success_count = 0
           /\ scheduled_tasks[id].fail_count >= n
           /\ TickCount(now - ClockStart) < MaxTicks)
          ~> (/\ id \in DOMAIN scheduled_tasks
              /\ scheduled_tasks[id].total_runs = n + 1)

\* a task was fired again after a failed fire, and failed again
C27_FiredAgainAfterFailure ==
    \E id \in StallIds :
        /\ id \in DOMAIN scheduled_tasks
        /\ scheduled_tasks[id].total_runs = 2
        /\ scheduled_tasks[id].fail_count = 2
        /\ scheduled_tasks[id].success_count = 0

(***************************************************************************)
(* C28: when a task is scheduled or re-scheduled (start, create_task,      *)
(* update_task), the instant at which the timer it gets fires next is the  *)
(* next_run computed for the task.                                         *)
(***************************************************************************)
C28_TimerFiresAtNextRun ==
    [][(\/ start
        \/ \E id \in ExplicitIds, d \in TaskData : create_task(id, d)
        \/ \E id \in ExplicitIds, u \in Updates : update_task(id, u))
       => \A j \in jobs' \ jobs :
             /\ j.id \in DOMAIN scheduled_tasks'
             /\ j.next_fire = scheduled_tasks'[j.id].next_run]_vars

(***************************************************************************)
(* C29: when a task fires or is run now and neither task_handlers has an   *)
(* entry for its task type nor the task carries a callback, the execution  *)
(* is counted as a failure, and the scheduler keeps running with the       *)
(* task's timer and the other timers in place.                             *)
(***************************************************************************)
C29_NoHandlerIsAFailure ==
    [][/\ \A j \in jobs :
             (/\ TimerFire(j)
              /\ j.id \in DOMAIN scheduled_tasks
              /\ scheduled_tasks[j.id].is_active
              /\ scheduled_tasks[j.id].task_type \notin DefaultHandlerTypes
              /\ ~scheduled_tasks[j.id].callback)
             => /\ scheduled_tasks'[j.id].fail_count = scheduled_tasks[j.id].fail_count + 1
                /\ scheduled_tasks'[j.id].success_count = scheduled_tasks[j.id].success_count
                /\ scheduler_running'
                /\ \E k \in jobs' : k.id = j.id /\ k.period = j.period /\ k.next_fire > now
                /\ jobs \ {j} \subseteq jobs'
       /\ \A id \in DOMAIN scheduled_tasks :
             (/\ run_task_now(id)
              /\ scheduled_tasks[id].task_type \notin DefaultHandlerTypes
              /\ ~scheduled_tasks[id].callback)
             => /\ scheduled_tasks'[id].fail_count = scheduled_tasks[id].fail_count + 1
                /\ scheduled_tasks'[id].success_count = scheduled_tasks[id].success_count
                /\ scheduler_running'
                /\ jobs' = jobs]_vars

\* a task without handler and callback has fired once and was run now once
C29_FiredAndRunWithoutHandler ==
    \E id \in DOMAIN scheduled_tasks :
        /\ scheduled_tasks[id].task_type \notin DefaultHandlerTypes
        /\ ~scheduled_tasks[id].callback
        /\ scheduled_tasks[id].total_runs = 1
        /\ scheduled_tasks[id].fail_count = 2
        /\ \E j \in jobs : j.id = id

(***************************************************************************)
(* C30: for a daily task whose accepted schedule_time is the time of day   *)
(* T, next_run is T on the current date when T is strictly after now, and  *)
(* T on the following date otherwise, also when T equals now.              *)
(***************************************************************************)
C30_DailyNextRunIsItsTimeOfDay ==
    (trig.frequency = "daily" /\ trig.next_run # NoInstant)
    => LET hm == ParseTable[trig.schedule_time].ints
           T == hm[1] * HOUR + hm[2] * MINUTE
       IN  trig.next_run = IF T > SecondOfDay(now)
                           THEN DateOf(now) * DAY + T
                           ELSE (DateOf(now) + 1) * DAY + T

(***************************************************************************)
(* C31: for a weekly task, next_run is at the given time of day, strictly  *)
(* after now and never more than 7 days after now: a further week is added *)
(* only when the computed instant is not strictly after now.               *)
(***************************************************************************)
C31_WeeklyNextRunWithinAWeek ==
    (trig.frequency = "weekly" /\ trig.next_run # NoInstant)
    => /\ trig.next_run > now
       /\ trig.next_run <= now + 7 * DAY
       /\ LET hm == ParseTable[trig.schedule_time].strp
          IN  hm # <<>> => SecondOfDay(trig.next_run) = hm[1] * HOUR + hm[2] * MINUTE

(***************************************************************************)
(* C32: for a monthly task whose accepted schedule_time is the time of day *)
(* T, next_run is T on day 1 of the calendar month after now's month: in   *)
(* December that is January of the next year.                              *)
(***************************************************************************)
C32_MonthlyNextRunFirstOfNextMonth ==
    (trig.frequency = "monthly" /\ trig.next_run # NoInstant)
    => LET hm == ParseTable[trig.schedule_time].ints
           december == MonthOf(now) = 12
       IN  /\ YearOf(trig.next_run) = IF december THEN YearOf(now) + 1 ELSE YearOf(now)
           /\ MonthOf(trig.next_run) = IF december THEN 1 ELSE MonthOf(now) + 1
           /\ DayOfMonth(trig.next_run) = 1
           /\ SecondOfDay(trig.next_run) = hm[1] * HOUR + hm[2] * MINUTE

(***************************************************************************)
(* C33: a call of collect_from_specific_group that interleaves with the    *)
(* running collection loop never makes a url count as a new link twice:    *)
(* between two calls of clear_collected_urls, a url that such a call added *)
(* to total_links adds one to it at most, the passes of the loop included. *)
(***************************************************************************)
C33_UrlCreditedOnceBetweenClears ==
    \A u \in Urls :
        credited[u].call >= 1 => credited[u].call + credited[u].pass <= 1

(***************************************************************************)
(* C34: in every reachable state, whatever the interleaving of             *)
(* start_auto_collection and stop_auto_collection (a start that runs while *)
(* a stop waits for the cancelled loop included), is_collecting is true    *)
(* only if a task of _collection_loop exists that is not done.             *)
(***************************************************************************)
C34_CollectingHasLiveLoop ==
    is_collecting => \E t \in 1..Len(loops) : loops[t].pc \notin Done

(***************************************************************************)
(* C35: the engine without clear_collected_urls.  In every state in which  *)
(* no pass and no call of collect_from_specific_group is in progress,      *)
(* total_links equals the number of urls in collected_urls, also after     *)
(* stop_auto_collection has interrupted a pass.                            *)
(***************************************************************************)
NoClearNext ==
    \/ \E is_connected \in BOOLEAN : start_auto_collection(is_connected)
    \/ stop_auto_collection
    \/ StopResumes
    \/ \E t \in 1..Len(loops) : LoopIteration(t)
    \/ \E t \in 1..Len(loops), groups \in GroupLists : GroupsReturned(t, groups)
    \/ \E t \in 1..Len(loops) : GroupsRaised(t)
    \/ \E t \in 1..Len(loops), messages \in MessageBatches :
          \E outcomes \in SaveOutcomes(messages) : MessagesReturned(t, messages, outcomes)
    \/ \E t \in 1..Len(loops) : MessagesRaised(t)
    \/ \E t \in 1..Len(loops) : GroupSleepOver(t)
    \/ \E t \in 1..Len(loops) : CancelDelivered(t)
    \/ Elapse

SpecNoClear == CollInit /\ [][NoClearNext]_vars

Quiescent ==
    /\ \A t \in 1..Len(loops) : loops[t].pc \notin {"enum", "fetch", "sleep_group"}
    /\ \A c \in 1..Len(ondemand) : ondemand[c].pc = "returned"

C35_TotalLinksEqualsUrlsWhenQuiet ==
    Quiescent => collection_stats.total_links = Cardinality(collected_urls)

(***************************************************************************)
(* C36: in every reachable state of the scheduler the task ids that have a *)
(* job in the job store are the task ids of scheduled_tasks: no registered *)
(* task lacks a timer and no timer exists for an id that is not            *)
(* registered.                                                             *)
(***************************************************************************)
C36_TimersMatchRegistry ==
    {j.id : j \in jobs} = DOMAIN scheduled_tasks

(***************************************************************************)
(* C37: an update_task that fails, because the schedule of the edited task *)
(* is invalid or because a task_type or frequency value is unknown, leaves *)
(* the stored record as it was before the call: no field of it, name,      *)
(* frequency and schedule_time included, is changed.                       *)
(***************************************************************************)
UpdateFails(id, u) ==
    /\ id \in DOMAIN scheduled_tasks
    /\ LET f == UpdateFields(scheduled_tasks[id], u)
       IN  \/ f.raised
           \/ ~schedule_task([scheduled_tasks EXCEPT ![id] = f.task], jobs, id,
                             f.task, now).ok

C37_FailedUpdateChangesNothing ==
    [][\A id \in ExplicitIds, u \in Updates :
          (update_task(id, u) /\ UpdateFails(id, u))
          => scheduled_tasks' = scheduled_tasks]_vars

(***************************************************************************)
(* C38: when a start() that starts the scheduler has completed, each of    *)
(* the three default tasks it adds (daily_backup, hourly_collection,       *)
(* weekly_cleanup) is in scheduled_tasks and has a job in the job store.   *)
(***************************************************************************)
C38_DefaultTasksRegisteredWithTimer ==
    [][(start /\ ~scheduler_running)
       => \A i \in 1..Len(DefaultTasks) :
             /\ DefaultTasks[i].id \in DOMAIN scheduled_tasks'
             /\ \E j \in jobs' : j.id = DefaultTasks[i].id]_vars

(***************************************************************************)
(* C39: every iteration of _collection_loop that does not take the         *)
(* cool-down branch raises collections_today by exactly one when its pass  *)
(* is over, whether the pass found no group, was cut short or failed       *)
(* inside; and collections_today never exceeds 50.                         *)
(***************************************************************************)
PassPcs == {"enum", "fetch", "sleep_group"}

\* the pass of loop t is over in this step
PassOver(t) == loops[t].pc \in PassPcs /\ loops'[t].pc \notin PassPcs

C39_EveryPassCounted ==
    /\ [](collection_stats.collections_today <= DailyCap)
    /\ [][\A t \in 1..Len(loops) :
             PassOver(t) => collection_stats'.collections_today
                              = collection_stats.collections_today + 1]_vars

(***************************************************************************)
(* The scheduler whose tasks are created without an 'id' in task_data:     *)
(* line 385 derives the id from the second the clock shows.                *)
(***************************************************************************)
create_task_without_id(d) == create_task(AutoTaskId(now), d)

AutoNext ==
    \/ start
    \/ \E d \in TaskData : create_task_without_id(d)
    \/ \E id \in DOMAIN scheduled_tasks : delete_task(id)
    \/ \E j \in jobs : TimerFire(j)
    \/ \E e \in DOMAIN executions, o \in HandlerOutcomes : HandlerReturns(e, o)
    \/ Tick

SpecAuto == Init /\ [][AutoNext]_vars

(***************************************************************************)
(* C40: create_task called without an explicit id never replaces a task    *)
(* that is registered: every such call that succeeds adds a new entry to   *)
(* scheduled_tasks, also when two calls are made within the same second of *)
(* the clock.                                                              *)
(***************************************************************************)
C40_AutoIdCreateAddsEntry ==
    [][\A d \in TaskData :
          (create_task_without_id(d) /\ create_task_returns(AutoTaskId(now), d))
          => /\ AutoTaskId(now) \notin DOMAIN scheduled_tasks
             /\ DOMAIN scheduled_tasks' = DOMAIN scheduled_tasks \cup {AutoTaskId(now)}]_vars

====
